---- MODULE Spec2Model ----
(***************************************************************************)
(* TerraHold hand gesture interpretation engine.                           *)
(*                                                                         *)
(* Two variants of the HandTracker class are modelled:                     *)
(*   - the role-resolving tracker (CONFIG.MIN_HAND_SEPARATION, pinch state *)
(*     machine), variable `tracker`;                                       *)
(*   - the debouncing tracker (LOST_THRESHOLD), variable `dtracker`.       *)
(*                                                                         *)
(* Numbers.  The source computes on IEEE doubles in [0,1].  The model is   *)
(* exact fixed point: a keypoint coordinate is an integer number of ticks  *)
(* (1 tick = 0.001), and every derived quantity (palm centre, smoothed     *)
(* position, pinch distance, velocity) is an integer number of fine units  *)
(* (1 tick = FINE fine units).  FINE is divisible by 5 (the palm centre    *)
(* is a mean of 5 keypoints) and FINE/5 by 1..4 (window means), so every   *)
(* division the code performs is exact in the model.                       *)
(***************************************************************************)
EXTENDS Integers, Sequences, FiniteSets, TLC

VARIABLES
    tracker,    \* the role-resolving HandTracker object (its fields)
    dtracker,   \* the debouncing HandTracker object (its fields)
    results,    \* the results object of the last onResults delivery
    calls,      \* callbacks and UI refreshes invoked by that delivery, in order
    lostRun,    \* history: onHandsLost calls in the current run of frames
                \* that ended with both roles absent
    missRun,    \* history, per role: frames in a row that did not assign the
                \* role since it was last assigned (-1: never assigned)
    hyst,       \* history of a pinch-hysteresis test sequence
    frameNo,    \* history: frames delivered so far in the scripted scenario
    detector,   \* the render loop's view of the detector: calls to
                \* handsInstance.send that have not settled, and what the
                \* last processFrame call did
    scene,      \* the scene controller (app.js) and its Earth object
    twin        \* a second role-resolving HandTracker, fed the same frames,
                \* and what its last delivery invoked

vars ==
    <<tracker, dtracker, results, calls, lostRun, missRun, hyst, frameNo, detector, scene,
      twin>>

FINE == 3 * 4 * 5

\* ---- CONFIG of the role-resolving tracker (ticks) ----
BUFFER_SIZE_POSITION == 3
BUFFER_SIZE_PINCH == 3
MIN_HAND_SEPARATION == 180
PINCH_THRESHOLD == 50
PINCH_RELEASE_THRESHOLD == 80
CLUTCH_VELOCITY_THRESHOLD == 20

\* JavaScript null (prevRightPalm before the right hand has settled).
NULL == [null |-> TRUE]

Abs(n) == IF n < 0 THEN -n ELSE n

\* The largest r in lo..hi with r * r <= n, by bisection (lo * lo <= n).
RECURSIVE RootBetween(_, _, _)
RootBetween(n, lo, hi) ==
    IF lo >= hi THEN lo
    ELSE LET mid == (lo + hi + 1) \div 2
         IN  IF mid * mid <= n THEN RootBetween(n, mid, hi) ELSE RootBetween(n, lo, mid - 1)

\* Math.sqrt(dx * dx + dy * dy) on the offsets the model feeds it: the exact
\* root, which lies in 0..|dx|+|dy|.  The inputs are chosen so that the sum
\* of squares is a perfect square; on any other argument the CHOOSE has no
\* value and TLC stops with an error.
Hypot(dx, dy) ==
    LET n == dx * dx + dy * dy
    IN  CHOOSE r \in {RootBetween(n, 0, Abs(dx) + Abs(dy))} : r * r = n

\* for (const p of buffer) { sx += p.x; sy += p.y; } over the first k entries
RECURSIVE SumX(_, _)
SumX(buffer, k) == IF k = 0 THEN 0 ELSE buffer[k].x + SumX(buffer, k - 1)

RECURSIVE SumY(_, _)
SumY(buffer, k) == IF k = 0 THEN 0 ELSE buffer[k].y + SumY(buffer, k - 1)

\* for (const v of buffer) sum += v; over the first k entries
RECURSIVE SumV(_, _)
SumV(buffer, k) == IF k = 0 THEN 0 ELSE buffer[k] + SumV(buffer, k - 1)

\* Mutant of PushShift: beyond the capacity the newest sample is dropped.
PushShift_EvictsNewest(buffer, x, cap) ==
    LET pushed == Append(buffer, x)
    IN  IF Len(pushed) > cap THEN buffer ELSE pushed

\* buffer.push(x); if (buffer.length > cap) buffer.shift();
PushShift(buffer, x, cap) ==
    LET pushed == Append(buffer, x)
    IN  IF Len(pushed) > cap THEN Tail(pushed) ELSE pushed

\* Mutant of SmoothPosition: the sum of the window instead of its mean.
SmoothPosition_Sum(buffer, newPos) ==
    LET b == PushShift(buffer, newPos, BUFFER_SIZE_POSITION)
    IN  [buffer |-> b, value |-> [x |-> SumX(b, Len(b)), y |-> SumY(b, Len(b))]]

\* _smoothPosition: the buffer after the push, and the mean it returns.
SmoothPosition(buffer, newPos) ==
    LET b == PushShift(buffer, newPos, BUFFER_SIZE_POSITION)
    IN  [buffer |-> b,
         value  |-> [x |-> SumX(b, Len(b)) \div Len(b), y |-> SumY(b, Len(b)) \div Len(b)]]

\* _smoothValue: the buffer after the push, and the mean it returns.
SmoothValue(buffer, newVal) ==
    LET b == PushShift(buffer, newVal, BUFFER_SIZE_PINCH)
    IN  [buffer |-> b, value |-> SumV(b, Len(b)) \div Len(b)]

\* Mutant of palmIndices: the index PIP joint (6) for the index MCP (5).
palmIndices_IndexPip == <<0, 6, 9, 13, 17>>

palmIndices == <<0, 5, 9, 13, 17>>

\* for (const idx of palmIndices) { cx += landmarks[idx].x; cy += landmarks[idx].y; }
\* over the first k indices
RECURSIVE PalmSumX(_, _)
PalmSumX(landmarks, k) ==
    IF k = 0 THEN 0 ELSE landmarks[palmIndices[k]].x + PalmSumX(landmarks, k - 1)

RECURSIVE PalmSumY(_, _)
PalmSumY(landmarks, k) ==
    IF k = 0 THEN 0 ELSE landmarks[palmIndices[k]].y + PalmSumY(landmarks, k - 1)

\* _calculatePalmCenter: mean of the five palm keypoints, in fine units.
CalculatePalmCenter(landmarks) ==
    [x |-> (PalmSumX(landmarks, Len(palmIndices)) * FINE) \div Len(palmIndices),
     y |-> (PalmSumY(landmarks, Len(palmIndices)) * FINE) \div Len(palmIndices)]

\* Mutant of IsFingerClosed: a tip exactly as far as the PIP joint counts
\* as closed (<= for <).
IsFingerClosed_NotStrict(landmarks, tipIdx, pipIdx) ==
    LET wrist == landmarks[0]
        tip == landmarks[tipIdx]
        pip == landmarks[pipIdx]
        dTip == (tip.x - wrist.x) * (tip.x - wrist.x) + (tip.y - wrist.y) * (tip.y - wrist.y)
        dPip == (pip.x - wrist.x) * (pip.x - wrist.x) + (pip.y - wrist.y) * (pip.y - wrist.y)
    IN  dTip <= dPip

\* _isFingerClosed: squared 2D distance of tip and PIP to the wrist.
IsFingerClosed(landmarks, tipIdx, pipIdx) ==
    LET wrist == landmarks[0]
        tip == landmarks[tipIdx]
        pip == landmarks[pipIdx]
        dTip == (tip.x - wrist.x) * (tip.x - wrist.x) + (tip.y - wrist.y) * (tip.y - wrist.y)
        dPip == (pip.x - wrist.x) * (pip.x - wrist.x) + (pip.y - wrist.y) * (pip.y - wrist.y)
    IN  dTip < dPip

\* isStrictGestureValid: middle, ring and pinky all closed.
IsStrictGestureValid(landmarks) ==
    /\ IsFingerClosed(landmarks, 12, 10)
    /\ IsFingerClosed(landmarks, 16, 14)
    /\ IsFingerClosed(landmarks, 20, 18)

\* rawDistance: thumb tip (4) to index tip (8), in fine units.
RawPinchDistance(landmarks) ==
    LET dx == landmarks[4].x - landmarks[8].x
        dy == landmarks[4].y - landmarks[8].y
    IN  Hypot(dx, dy) * FINE

\* Mutant of TooClose: the squared separation compared with the threshold
\* itself (the square root forgotten).
TooClose_NoRoot(palm0, palm1) ==
    LET u == FINE \div 5
        dx == (palm0.x - palm1.x) \div u
        dy == (palm0.y - palm1.y) \div u
    IN  dx * dx + dy * dy < MIN_HAND_SEPARATION * 5

\* separation < CONFIG.MIN_HAND_SEPARATION on the two raw palm centres.
\* sqrt(s) < m is s < m*m for s, m >= 0; the palm centres are multiples of
\* FINE/5 fine units, and the squares are taken in that unit (exactly) to
\* stay inside TLC's 32 bit integers.
TooClose(palm0, palm1) ==
    LET u == FINE \div 5
        dx == (palm0.x - palm1.x) \div u
        dy == (palm0.y - palm1.y) \div u
        m == MIN_HAND_SEPARATION * 5
    IN  dx * dx + dy * dy < m * m

\* ---- callbacks: what one onResults delivery invokes, in order ----
\* A machine value m = [this |-> the tracker's fields, calls |-> the
\* invocations so far]; the three callbacks are registered (setCallbacks).

Emit(m, call) == [m EXCEPT !.calls = Append(@, call)]

\* _updateStatusUI(left, right)
UpdateStatusUI(m, left, right) ==
    Emit(m, [type |-> "updateStatusUI", left |-> left, right |-> right])

\* Mutant of ProcessLeftHand: the position is smoothed but onLeftHand is
\* called only once the window is full.
ProcessLeftHand_WhenFull(m, landmarks) ==
    LET rawPalm == CalculatePalmCenter(landmarks)
        s == SmoothPosition(m.this.leftPalmBuffer, rawPalm)
        t == [m.this EXCEPT !.leftPalmBuffer = s.buffer, !.leftPalm = s.value]
    IN  IF Len(s.buffer) < BUFFER_SIZE_POSITION
        THEN [m EXCEPT !.this = t]
        ELSE Emit([m EXCEPT !.this = t],
                  [type |-> "onLeftHand", palmCenter |-> t.leftPalm, landmarks |-> landmarks])

\* _processLeftHand
ProcessLeftHand(m, landmarks) ==
    LET rawPalm == CalculatePalmCenter(landmarks)
        s == SmoothPosition(m.this.leftPalmBuffer, rawPalm)
        t == [m.this EXCEPT !.leftPalmBuffer = s.buffer, !.leftPalm = s.value]
    IN  Emit([m EXCEPT !.this = t],
             [type |-> "onLeftHand", palmCenter |-> t.leftPalm, landmarks |-> landmarks])

\* Mutant of Engage: the curl gate is not consulted.
Engage_NoGate(pinchDistance, isStrictGestureValid) ==
    pinchDistance < PINCH_THRESHOLD * FINE

\* Mutant of Engage: the engage threshold itself engages (<= for <).
Engage_Inclusive(pinchDistance, isStrictGestureValid) ==
    pinchDistance <= PINCH_THRESHOLD * FINE /\ isStrictGestureValid

\* ENGAGE condition of the pinch state machine (state Idle).
Engage(pinchDistance, isStrictGestureValid) ==
    pinchDistance < PINCH_THRESHOLD * FINE /\ isStrictGestureValid

\* Mutant of Disengage: no clutch (the velocity is not consulted).
Disengage_NoClutch(pinchDistance, pinchVelocity, isStrictGestureValid) ==
    \/ pinchDistance > PINCH_RELEASE_THRESHOLD * FINE
    \/ ~isStrictGestureValid

\* DISENGAGE condition of the pinch state machine (state Engaged).
Disengage(pinchDistance, pinchVelocity, isStrictGestureValid) ==
    \/ pinchDistance > PINCH_RELEASE_THRESHOLD * FINE
    \/ pinchVelocity > CLUTCH_VELOCITY_THRESHOLD * FINE
    \/ ~isStrictGestureValid

\* Mutant of ScaleFactor: the pinch state is not consulted.
ScaleFactor_IgnoresState(isZooming, pinchDistance, startPinchDistance) ==
    IF startPinchDistance > 1 * FINE
    THEN [num |-> pinchDistance, den |-> startPinchDistance]
    ELSE [num |-> 1, den |-> 1]

\* scaleFactor, a rational num/den: 1.0 unless zooming on a start distance
\* above 0.001 (one tick).
ScaleFactor(isZooming, pinchDistance, startPinchDistance) ==
    IF isZooming /\ startPinchDistance > 1 * FINE
    THEN [num |-> pinchDistance, den |-> startPinchDistance]
    ELSE [num |-> 1, den |-> 1]

\* Mutant of RotDelta: on (re)acquisition the delta is taken against the
\* default palm position (0.5, 0.5) instead of being zero.
RotDelta_AgainstDefault(rightHandActive, prevRightPalm, rightPalm) ==
    LET prev == IF rightHandActive /\ prevRightPalm # NULL
                THEN prevRightPalm
                ELSE [x |-> 500 * FINE, y |-> 500 * FINE]
    IN  [x |-> rightPalm.x - prev.x, y |-> rightPalm.y - prev.y]

\* rotDelta: zero unless the right hand was active with a previous palm.
RotDelta(rightHandActive, prevRightPalm, rightPalm) ==
    IF rightHandActive /\ prevRightPalm # NULL
    THEN [x |-> rightPalm.x - prevRightPalm.x, y |-> rightPalm.y - prevRightPalm.y]
    ELSE [x |-> 0, y |-> 0]

\* What _processRightHand writes to the console, in order.
Console(wasZooming, isZooming, isStrictGestureValid) ==
    <<[type |-> "console.log", text |-> "Right Hand Stats"]>>
        \o (IF ~isStrictGestureValid /\ wasZooming
            THEN <<[type |-> "console.warn", text |-> "Gesture Invalidated"]>>
            ELSE <<>>)
        \o (IF ~wasZooming /\ isZooming
            THEN <<[type |-> "console.log", text |-> "ZOOM STARTED"]>>
            ELSE <<>>)
        \o (IF wasZooming /\ ~isZooming
            THEN <<[type |-> "console.log",
                    text |-> IF ~isStrictGestureValid THEN "ZOOM STOPPED (Invalid Gesture)"
                             ELSE "ZOOM STOPPED (Released)"]>>
            ELSE <<>>)

\* Mutant of DebugLog: logging the statistics empties the pinch window.
DebugLog_EmptiesWindow(m, wasZooming, isStrictGestureValid) ==
    IF m.this.debugEnabled
    THEN [m EXCEPT !.calls = @ \o Console(wasZooming, m.this.isZooming, isStrictGestureValid),
                   !.this.pinchBuffer = <<>>]
    ELSE m

\* The debug logging of _processRightHand (lines 270-283, 300, 306, 307):
\* console output when this.debugEnabled, nothing else.
DebugLog(m, wasZooming, isStrictGestureValid) ==
    IF m.this.debugEnabled
    THEN [m EXCEPT !.calls = @ \o Console(wasZooming, m.this.isZooming, isStrictGestureValid)]
    ELSE m

\* _processRightHand
ProcessRightHand(m, landmarks) ==
    LET this == m.this
        rawPalm == CalculatePalmCenter(landmarks)
        sp == SmoothPosition(this.rightPalmBuffer, rawPalm)
        rightPalm == sp.value
        isStrictGestureValid == IsStrictGestureValid(landmarks)
        sv == SmoothValue(this.pinchBuffer, RawPinchDistance(landmarks))
        pinchDistance == sv.value
        pinchVelocity == pinchDistance - this.prevPinchDistance
        engage == ~this.isZooming /\ Engage(pinchDistance, isStrictGestureValid)
        isZooming ==
            IF ~this.isZooming
            THEN engage
            ELSE ~Disengage(pinchDistance, pinchVelocity, isStrictGestureValid)
        startPinchDistance == IF engage THEN pinchDistance ELSE this.startPinchDistance
        scaleFactor == ScaleFactor(isZooming, pinchDistance, startPinchDistance)
        rotDelta == RotDelta(this._rightHandActive, this.prevRightPalm, rightPalm)
        t == [this EXCEPT !.rightPalmBuffer = sp.buffer,
                          !.rightPalm = rightPalm,
                          !.pinchBuffer = sv.buffer,
                          !.pinchDistance = pinchDistance,
                          !.isZooming = isZooming,
                          !.startPinchDistance = startPinchDistance,
                          !._rightHandActive = TRUE,
                          !.prevPinchDistance = pinchDistance,
                          !.prevRightPalm = rightPalm]
    IN  Emit(DebugLog([m EXCEPT !.this = t], this.isZooming, isStrictGestureValid),
             [type |-> "onRightHand", palmCenter |-> rightPalm, isZooming |-> isZooming,
              scaleFactor |-> scaleFactor, rotationDelta |-> rotDelta,
              landmarks |-> landmarks])

\* The assignments of the zero-detection branch (lines 114-118).
ClearRoles(this) ==
    [this EXCEPT !.handsCount = 0,
                 !.leftHandDetected = FALSE,
                 !.rightHandDetected = FALSE,
                 !._rightHandActive = FALSE,
                 !.prevRightPalm = NULL]

\* The zero-detection branch of _processResults.
NoHands(m) ==
    Emit(UpdateStatusUI([m EXCEPT !.this = ClearRoles(@)], FALSE, FALSE),
         [type |-> "onHandsLost"])

\* Mutant of PositionOnly: rightHandDetected is not cleared.
PositionOnly_KeepsRight(this) ==
    [this EXCEPT !.handsCount = 1,
                 !.leftHandDetected = TRUE,
                 !._rightHandActive = FALSE,
                 !.prevRightPalm = NULL,
                 !.rightPalmBuffer = <<>>,
                 !.pinchBuffer = <<>>]

\* Mutant of PositionOnly: the pinch state is reset with the windows.
PositionOnly_ResetsPinch(this) ==
    [this EXCEPT !.handsCount = 1,
                 !.leftHandDetected = TRUE,
                 !.rightHandDetected = FALSE,
                 !._rightHandActive = FALSE,
                 !.prevRightPalm = NULL,
                 !.rightPalmBuffer = <<>>,
                 !.pinchBuffer = <<>>,
                 !.isZooming = FALSE,
                 !.prevPinchDistance = 0]

\* Mutant of PositionOnly: handsCount is 2 in the position-only branches.
PositionOnly_CountsTwo(this) ==
    [this EXCEPT !.handsCount = 2,
                 !.leftHandDetected = TRUE,
                 !.rightHandDetected = FALSE,
                 !._rightHandActive = FALSE,
                 !.prevRightPalm = NULL,
                 !.rightPalmBuffer = <<>>,
                 !.pinchBuffer = <<>>]

\* The position-only branches (one detection, or two detections too close):
\* the right-hand state that is cleared before _processLeftHand runs.
PositionOnly(this) ==
    [this EXCEPT !.handsCount = 1,
                 !.leftHandDetected = TRUE,
                 !.rightHandDetected = FALSE,
                 !._rightHandActive = FALSE,
                 !.prevRightPalm = NULL,
                 !.rightPalmBuffer = <<>>,
                 !.pinchBuffer = <<>>]

\* Mutant of LeftIdx: the labels are taken without the mirror inversion.
LeftIdx_NotMirrored(hand0Label, hand1Label, palm0, palm1) ==
    LET hand0IsLeft == hand0Label = "Left"
        hand1IsLeft == hand1Label = "Left"
    IN  IF hand0IsLeft /\ ~hand1IsLeft THEN 0
        ELSE IF ~hand0IsLeft /\ hand1IsLeft THEN 1
        ELSE IF palm0.x > palm1.x THEN 0 ELSE 1

\* Mutant of LeftIdx: with equal labels the smaller x is taken as left.
LeftIdx_SmallerX(hand0Label, hand1Label, palm0, palm1) ==
    LET hand0IsLeft == hand0Label = "Right"
        hand1IsLeft == hand1Label = "Right"
    IN  IF hand0IsLeft /\ ~hand1IsLeft THEN 0
        ELSE IF ~hand0IsLeft /\ hand1IsLeft THEN 1
        ELSE IF palm0.x < palm1.x THEN 0 ELSE 1

\* leftIdx of a frame with two separate hands (0-based, as in the source).
LeftIdx(hand0Label, hand1Label, palm0, palm1) ==
    LET hand0IsLeft == hand0Label = "Right"
        hand1IsLeft == hand1Label = "Right"
    IN  IF hand0IsLeft /\ ~hand1IsLeft THEN 0
        ELSE IF ~hand0IsLeft /\ hand1IsLeft THEN 1
        ELSE IF palm0.x > palm1.x THEN 0 ELSE 1

\* The branch of _processResults for two detections.
\* Mutant of BothRoles: the live flags are not assigned before the hands
\* are processed.
BothRoles_FlagsLate(this) == [this EXCEPT !.handsCount = 2]

\* The assignments of the two-hands branch before the hands are processed
\* (lines 165, 191, 192).
BothRoles(this) ==
    [this EXCEPT !.handsCount = 2,
                 !.leftHandDetected = TRUE,
                 !.rightHandDetected = TRUE]

TwoHands(m, res) ==
    LET lm == res.multiHandLandmarks
        palm0 == CalculatePalmCenter(lm[1])
        palm1 == CalculatePalmCenter(lm[2])
    IN  IF TooClose(palm0, palm1)
        THEN ProcessLeftHand([m EXCEPT !.this = PositionOnly(@)], lm[1])
        ELSE LET leftIdx == LeftIdx(res.multiHandedness[1].label,
                                    res.multiHandedness[2].label, palm0, palm1)
                 rightIdx == 1 - leftIdx
             IN  ProcessRightHand(
                     ProcessLeftHand([m EXCEPT !.this = BothRoles(@)], lm[leftIdx + 1]),
                     lm[rightIdx + 1])

\* _processResults: the tracker and the invocations after one delivery.
ProcessResults(this, res) ==
    LET m0 == [this |-> [this EXCEPT !._firstResultReceived = TRUE], calls |-> <<>>]
        numHands == Len(res.multiHandLandmarks)
    IN  IF numHands = 0 THEN NoHands(m0)
        ELSE LET m1 == IF numHands = 1
                       THEN ProcessLeftHand([m0 EXCEPT !.this = PositionOnly(@)],
                                            res.multiHandLandmarks[1])
                       ELSE IF numHands = 2 THEN TwoHands(m0, res)
                       ELSE m0
             IN  UpdateStatusUI(m1, m1.this.leftHandDetected, m1.this.rightHandDetected)

\* constructor
NewHandTracker ==
    [_isProcessing |-> FALSE,
     _firstResultReceived |-> FALSE,
     leftHandDetected |-> FALSE,
     rightHandDetected |-> FALSE,
     handsCount |-> 0,
     leftPalm |-> [x |-> 500 * FINE, y |-> 500 * FINE],
     rightPalm |-> [x |-> 500 * FINE, y |-> 500 * FINE],
     prevRightPalm |-> NULL,
     pinchDistance |-> 0,
     prevPinchDistance |-> 0,
     isZooming |-> FALSE,
     startPinchDistance |-> 0,
     _rightHandActive |-> FALSE,
     leftPalmBuffer |-> <<>>,
     rightPalmBuffer |-> <<>>,
     pinchBuffer |-> <<>>,
     debugEnabled |-> FALSE]   \* never assigned by the constructor: falsy

\* setDebugMode(enabled)
setDebugMode(this, enabled) == [this EXCEPT !.debugEnabled = enabled]

\* ================= the debouncing tracker =================
\* Instance constants set by its constructor.
BUFFER_SIZE == 4
PINCH_BUFFER_SIZE == 3
LOST_THRESHOLD == 5

\* _smoothPosition of the debouncing tracker (window this.BUFFER_SIZE).
DSmoothPosition(buffer, newPos) ==
    LET b == PushShift(buffer, newPos, BUFFER_SIZE)
    IN  [buffer |-> b,
         value  |-> [x |-> SumX(b, Len(b)) \div Len(b), y |-> SumY(b, Len(b)) \div Len(b)]]

\* _smoothValue of the debouncing tracker (window this.PINCH_BUFFER_SIZE).
DSmoothValue(buffer, newVal) ==
    LET b == PushShift(buffer, newVal, PINCH_BUFFER_SIZE)
    IN  [buffer |-> b, value |-> SumV(b, Len(b)) \div Len(b)]

\* _processLeftHand of the debouncing tracker
DProcessLeftHand(m, landmarks) ==
    LET rawPalm == CalculatePalmCenter(landmarks)
        s == DSmoothPosition(m.this.leftPalmBuffer, rawPalm)
        t == [m.this EXCEPT !.leftPalmBuffer = s.buffer, !.leftPalm = s.value]
    IN  Emit([m EXCEPT !.this = t],
             [type |-> "onLeftHand", palmCenter |-> t.leftPalm, landmarks |-> landmarks])

\* _processRightHand of the debouncing tracker
DProcessRightHand(m, landmarks) ==
    LET this == m.this
        rawPalm == CalculatePalmCenter(landmarks)
        prevRightPalm == this.rightPalm
        sp == DSmoothPosition(this.rightPalmBuffer, rawPalm)
        prevPinchDistance == this.pinchDistance
        sv == DSmoothValue(this.pinchBuffer, RawPinchDistance(landmarks))
        t == [this EXCEPT !.prevRightPalm = prevRightPalm,
                          !.rightPalmBuffer = sp.buffer,
                          !.rightPalm = sp.value,
                          !.prevPinchDistance = prevPinchDistance,
                          !.pinchBuffer = sv.buffer,
                          !.pinchDistance = sv.value]
    IN  Emit([m EXCEPT !.this = t],
             [type |-> "onRightHand", palmCenter |-> t.rightPalm,
              pinchDistance |-> t.pinchDistance,
              pinchDelta |-> t.pinchDistance - t.prevPinchDistance,
              rotationDelta |-> [x |-> t.rightPalm.x - t.prevRightPalm.x,
                                 y |-> t.rightPalm.y - t.prevRightPalm.y],
              landmarks |-> landmarks])

\* The loop of _processResults over detections i..n (1-based here): each is
\* processed as the left or the right hand by its (mirrored) label.
\* m.found records foundLeft and foundRight.
RECURSIVE DProcessDetections(_, _, _)
DProcessDetections(m, res, i) ==
    IF i > Len(res.multiHandLandmarks) THEN m
    ELSE LET landmarks == res.multiHandLandmarks[i]
             isLeftHand == res.multiHandedness[i].label = "Right"
             m1 == IF isLeftHand
                   THEN DProcessLeftHand(
                            [m EXCEPT !.found.left = TRUE, !.this.leftLostFrames = 0],
                            landmarks)
                   ELSE DProcessRightHand(
                            [m EXCEPT !.found.right = TRUE, !.this.rightLostFrames = 0],
                            landmarks)
         IN  DProcessDetections(m1, res, i + 1)

\* Mutant of LeftPresence: the hand is lost when the counter reaches the
\* threshold (>= for >).
LeftPresence_AtThreshold(foundLeft, leftLostFrames, leftHandDetected) ==
    IF ~foundLeft
    THEN (IF leftLostFrames >= LOST_THRESHOLD THEN FALSE ELSE leftHandDetected)
    ELSE TRUE

\* Mutant of LeftPresence: a found hand keeps the flag it had.
LeftPresence_KeepsFlag(foundLeft, leftLostFrames, leftHandDetected) ==
    IF ~foundLeft
    THEN (IF leftLostFrames > LOST_THRESHOLD THEN FALSE ELSE leftHandDetected)
    ELSE leftHandDetected

\* Mutant of LeftPresence: the counter is not consulted, a missed hand
\* keeps its flag.
LeftPresence_NeverLost(foundLeft, leftLostFrames, leftHandDetected) ==
    IF ~foundLeft THEN leftHandDetected ELSE TRUE

\* "Track lost frames" for the left hand: the flag after the frame.
LeftPresence(foundLeft, leftLostFrames, leftHandDetected) ==
    IF ~foundLeft
    THEN (IF leftLostFrames > LOST_THRESHOLD THEN FALSE ELSE leftHandDetected)
    ELSE TRUE

\* Mutant of RightPresence: the counter is compared with twice the threshold.
RightPresence_Late(foundRight, rightLostFrames, rightHandDetected) ==
    IF ~foundRight
    THEN (IF rightLostFrames > 2 * LOST_THRESHOLD THEN FALSE ELSE rightHandDetected)
    ELSE TRUE

\* "Track lost frames" for the right hand: the flag after the frame.
RightPresence(foundRight, rightLostFrames, rightHandDetected) ==
    IF ~foundRight
    THEN (IF rightLostFrames > LOST_THRESHOLD THEN FALSE ELSE rightHandDetected)
    ELSE TRUE

\* "Track lost frames": a role's counter after the frame.
LostFrames(found, lostFrames) == IF ~found THEN lostFrames + 1 ELSE lostFrames

\* "Track lost frames": counters and presence flags after the detection loop.
TrackLost(this, found) ==
    [this EXCEPT
        !.leftLostFrames = LostFrames(found.left, @),
        !.leftHandDetected =
            LeftPresence(found.left, LostFrames(found.left, this.leftLostFrames), @),
        !.rightLostFrames = LostFrames(found.right, @),
        !.rightHandDetected =
            RightPresence(found.right, LostFrames(found.right, this.rightLostFrames), @)]

\* onHandsLost is called when both flags are false after the frame.
NotifyLost(m) ==
    IF ~m.this.leftHandDetected /\ ~m.this.rightHandDetected
    THEN Emit(m, [type |-> "onHandsLost"])
    ELSE m

\* The part of _processResults after the detection loop.
AfterDetections(m) ==
    UpdateStatusUI(NotifyLost([this |-> TrackLost(m.this, m.found), calls |-> m.calls]),
                   TrackLost(m.this, m.found).leftHandDetected,
                   TrackLost(m.this, m.found).rightHandDetected)

\* _processResults of the debouncing tracker.
DProcessResults(this, res) ==
    AfterDetections(
        DProcessDetections(
            [this |-> [this EXCEPT !._firstResultReceived = TRUE], calls |-> <<>>,
             found |-> [left |-> FALSE, right |-> FALSE]],
            res, 1))

\* constructor of the debouncing tracker
NewDebouncingTracker ==
    [_firstResultReceived |-> FALSE,
     leftHandDetected |-> FALSE,
     rightHandDetected |-> FALSE,
     leftPalm |-> [x |-> 500 * FINE, y |-> 500 * FINE],
     rightPalm |-> [x |-> 500 * FINE, y |-> 500 * FINE],
     prevRightPalm |-> [x |-> 500 * FINE, y |-> 500 * FINE],
     pinchDistance |-> 150 * FINE,
     prevPinchDistance |-> 150 * FINE,
     leftPalmBuffer |-> <<>>,
     rightPalmBuffer |-> <<>>,
     pinchBuffer |-> <<>>,
     leftLostFrames |-> 0,
     rightLostFrames |-> 0]

\* ---- the detector's output: hands the model feeds the tracker ----
\* A detection's 21 keypoints (ticks) around (cx, cy): the five palm
\* keypoints average to (cx, cy); the index tip is the thumb tip moved by
\* the pinch vector pv; a finger in `closed` has its tip nearer the wrist
\* than its PIP joint, any other of middle, ring, pinky is stretched out.
MakeHand(cx, cy, pv, closed) ==
    LET off == [i \in 0..20 |->
            CASE i = 0 -> <<0, 40>>
              [] i = 1 -> <<-20, 30>>
              [] i = 2 -> <<-35, 15>>
              [] i = 3 -> <<-45, 0>>
              [] i = 4 -> <<-50, -20>>
              [] i = 5 -> <<-30, -10>>
              [] i = 6 -> <<-30, -40>>
              [] i = 7 -> <<-35, -30>>
              [] i = 8 -> <<-50 + pv[1], -20 + pv[2]>>
              [] i = 9 -> <<-10, -10>>
              [] i = 10 -> <<-10, -50>>
              [] i = 11 -> <<-10, -30>>
              [] i = 12 -> IF 12 \in closed THEN <<-10, 0>> ELSE <<-10, -100>>
              [] i = 13 -> <<10, -10>>
              [] i = 14 -> <<10, -50>>
              [] i = 15 -> <<10, -30>>
              [] i = 16 -> IF 16 \in closed THEN <<10, 0>> ELSE <<10, -100>>
              [] i = 17 -> <<30, -10>>
              [] i = 18 -> <<30, -45>>
              [] i = 19 -> <<30, -25>>
              [] OTHER -> IF 20 \in closed THEN <<30, 5>> ELSE <<30, -90>>]
    IN  [i \in 0..20 |-> [x |-> cx + off[i][1], y |-> cy + off[i][2]]]

Fist == {12, 16, 20}

\* Palm centres: A-B are 100 ticks apart (below the minimum separation),
\* A-C exactly 180 (not below it), B-C 80.
Centres == {<<300, 500>>, <<400, 500>>, <<480, 500>>}

Labels == {"Left", "Right"}

Hands == {MakeHand(c[1], c[2], <<100, 0>>, Fist) : c \in Centres}

\* A results object for a sequence of <<landmarks, label>> detections.
Results(dets) ==
    [multiHandLandmarks |-> [i \in 1..Len(dets) |-> dets[i][1]],
     multiHandedness |-> [i \in 1..Len(dets) |-> [label |-> dets[i][2]]]]

Detections(hands) == hands \X Labels

FramesOf(hands) ==
    {Results(<<>>)}
        \cup {Results(<<d>>) : d \in Detections(hands)}
        \cup {Results(<<d, e>>) : d \in Detections(hands), e \in Detections(hands)}

\* ---- bounds of the model ----
MaxLostRun == 2
MaxLostFrames == 6
MaxUpdates == 3
MaxWiredUpdates == 1

HandsLostCalls(cs) == Len(SelectSeq(cs, LAMBDA c : c.type = "onHandsLost"))

\* The detector side after init(): handsInstance exists when the Hands
\* library was loaded; the video holds current data (readyState >= 2) or
\* not; no send is in flight and processFrame has not been called.
NewDetector(loaded, readyState) ==
    [loaded |-> loaded, readyState |-> readyState,
     inFlight |-> 0,        \* send() calls whose promise has not settled
     delivered |-> FALSE,   \* the call in flight has invoked onResults
     resuming |-> 0,        \* settled sends whose await has not resumed yet
     settled |-> "none",    \* how the last send settled: resolved or rejected
     listener |-> "idle",   \* how far the onResults listener has got in a frame
     outcome |-> "none",    \* what the last processFrame call did
     tick |-> 0]            \* parity of the number of processFrame calls

\* ================= the scene controller and the Earth =================
\* Scales are in units of 1/SCALE_ONE; positions in units of one pixel
\* divided by 1000 * FINE (a palm coordinate of 1.0 times one pixel).
SCALE_ONE == 1000
MIN_SCALE == 150
MAX_SCALE == 5000

\* The value of a property that was never assigned, and a number held by a
\* property that can also be undefined or null.
UNDEFINED == [undefined |-> TRUE]
Number(n) == [value |-> n]

\* Earth constructor.  group.visible is true for a new THREE.Group;
\* zoomStartScale is not assigned, so it is undefined.
NewEarth ==
    [loaded |-> FALSE,
     visible |-> TRUE,
     targetPosition |-> [x |-> 0, y |-> 0, z |-> 0],
     targetScale |-> MIN_SCALE,
     currentScale |-> MIN_SCALE,
     zoomStartScale |-> UNDEFINED,
     velocityRotX |-> 0,
     velocityRotY |-> 0]

\* The module state of app.js: handsAreActive, settings, the Earth; and the
\* calls the last handler made on the Earth, in order.
NewScene ==
    [handsAreActive |-> FALSE,
     settings |-> [followHand |-> TRUE, enableZoom |-> TRUE, enableManualRotate |-> FALSE],
     earth |-> NewEarth,
     earthCalls |-> <<>>,
     primarySeen |-> FALSE,   \* history: a primary update since the last HandsLost
     zoomRun |-> FALSE,       \* history: the last setScaleFactor call had isZooming
     updates |-> 0]           \* history: Earth.update calls so far

\* The two trackers as constructed, callbacks registered.
Constructed ==
    /\ tracker = NewHandTracker
    /\ results = Results(<<>>)
    /\ calls = <<>>
    /\ lostRun = 0
    /\ missRun = [left |-> -1, right |-> -1]
    /\ hyst = [phase |-> "down", last |-> -1, below |-> FALSE, above |-> FALSE,
               engaged |-> 0, released |-> 0]
    /\ frameNo = 0
    /\ dtracker = NewDebouncingTracker
    /\ twin = [this |-> NewHandTracker, calls |-> <<>>]

Init == Constructed /\ detector = NewDetector(TRUE, 2) /\ scene = NewScene

\* The tracker and the invocations m of one delivery become the state.
\* lostRun counts the onHandsLost calls of the current run of frames that
\* leave neither role live; runs are capped at MaxLostRun calls.
LostRunAfter(m) ==
    IF ~m.this.leftHandDetected /\ ~m.this.rightHandDetected
    THEN lostRun + HandsLostCalls(m.calls)
    ELSE 0

Deliver(m, res) ==
    /\ LostRunAfter(m) <= MaxLostRun
    /\ tracker' = m.this
    /\ calls' = m.calls
    /\ results' = res
    /\ lostRun' = LostRunAfter(m)

\* The detector delivers a frame's results to the role-resolving tracker:
\* the handsInstance.onResults callback.
OnResults(res) == Deliver(ProcessResults(tracker, res), res)

Frames == FramesOf(Hands)

Next ==
    \E res \in Frames :
        OnResults(res) /\ UNCHANGED <<dtracker, missRun, hyst, frameNo, detector, scene, twin>>

Spec == Init /\ [][Next]_vars

\* ---- pinch gestures: the secondary hand pinches, the palms stay put ----
\* Thumb-to-index distances 0, 0.05 (as a 3-4-5 offset), 0.07, 0.08, 0.2.
PinchVectors == {<<0, 0>>, <<30, 40>>, <<70, 0>>, <<80, 0>>, <<200, 0>>}

PositionHand == MakeHand(300, 500, <<100, 0>>, Fist)

\* The secondary hand, with all three fingers curled or the pinky stretched.
PinchHands == {MakeHand(700, 500, pv, closed) : pv \in PinchVectors, closed \in {Fist, {12, 16}}}

PinchFrames ==
    {Results(<<>>), Results(<< <<PositionHand, "Right">> >>)}
        \cup {Results(<< <<PositionHand, "Right">>, <<h, "Left">> >>) : h \in PinchHands}

NextPinch ==
    \E res \in PinchFrames :
        OnResults(res) /\ UNCHANGED <<dtracker, missRun, hyst, frameNo, detector, scene, twin>>

SpecPinch == Init /\ [][NextPinch]_vars

\* ---- a pinch-hysteresis test sequence ----
\* Raw thumb-to-index distances (ticks) of the test sequences.
HystDistances == {0, 1, 2, 63, 64, 200}

\* Both hands held still, curl gate held, the secondary hand pinching at d.
HystFrame == [d \in HystDistances |->
    Results(<< <<PositionHand, "Right">>, <<MakeHand(700, 500, <<d, 0>>, Fist), "Left">> >>)]

\* One frame of a test sequence: from the constructed (Idle) tracker, raw
\* distances strictly decreasing from at least the engage threshold until
\* the smoothed distance has fallen below it, then strictly increasing.
\* hyst counts the Idle->Engaged and Engaged->Idle transitions.
HystStep(d) ==
    LET up == hyst.phase = "up" \/ (hyst.last >= 0 /\ d > hyst.last)
        m == ProcessResults(tracker, HystFrame[d])
        b2i(b) == IF b THEN 1 ELSE 0
    IN  /\ hyst.last < 0 => d >= PINCH_THRESHOLD
        /\ hyst.last >= 0 => d # hyst.last
        /\ (hyst.phase = "down" /\ up) => hyst.below
        /\ hyst.phase = "up" => d > hyst.last
        /\ tracker' = m.this
        /\ calls' = m.calls
        /\ results' = HystFrame[d]
        /\ hyst' = [phase |-> IF up THEN "up" ELSE "down",
                    last |-> d,
                    below |-> hyst.below \/ (~up /\ m.this.pinchDistance < PINCH_THRESHOLD * FINE),
                    above |-> hyst.above \/ (up /\ m.this.pinchDistance > PINCH_RELEASE_THRESHOLD * FINE),
                    engaged |-> hyst.engaged + b2i(~tracker.isZooming /\ m.this.isZooming),
                    released |-> hyst.released + b2i(tracker.isZooming /\ ~m.this.isZooming)]
        /\ UNCHANGED <<dtracker, lostRun, missRun, frameNo, detector, scene, twin>>

NextHyst == \E d \in HystDistances : HystStep(d)

SpecHyst == Init /\ [][NextHyst]_vars

\* ---- the scripted presence scenario ----
\* Detections per frame: one hand on frames 1-10, none on 11-13, one on 14.
ScenarioDetections == <<1, 1, 1, 1, 1, 1, 1, 1, 1, 1, 0, 0, 0, 1>>

\* The next frame of the scenario is delivered to the role-resolving tracker.
ScenarioStep(res) ==
    LET m == ProcessResults(tracker, res)
    IN  /\ frameNo < Len(ScenarioDetections)
        /\ Len(res.multiHandLandmarks) = ScenarioDetections[frameNo + 1]
        /\ tracker' = m.this
        /\ calls' = m.calls
        /\ results' = res
        /\ frameNo' = frameNo + 1
        /\ UNCHANGED <<dtracker, lostRun, missRun, hyst, detector, scene, twin>>

NextScenario == \E res \in Frames : ScenarioStep(res)

SpecScenario == Init /\ [][NextScenario]_vars

\* ---- frames for the debouncing tracker ----
\* Two detections the labels call the user's left hand, at different
\* places, and one they call the right hand.
DDetections ==
    {<<MakeHand(300, 500, <<100, 0>>, Fist), "Right">>,
     <<MakeHand(400, 600, <<100, 0>>, Fist), "Right">>,
     <<MakeHand(700, 500, <<60, 80>>, Fist), "Left">>}

DFrames ==
    {Results(<<>>)}
        \cup {Results(<<d>>) : d \in DDetections}
        \cup {Results(<<d, e>>) : d \in DDetections, e \in DDetections}

\* A frame holds a detection the debouncing tracker assigns to the role.
Assigns(res, role) ==
    \E i \in 1..Len(res.multiHandedness) :
        res.multiHandedness[i].label = (IF role = "left" THEN "Right" ELSE "Left")

MissRunAfter(res, role) ==
    IF Assigns(res, role) THEN 0
    ELSE IF missRun[role] < 0 THEN -1
    ELSE missRun[role] + 1

\* The detector delivers a frame's results to the debouncing tracker.  The
\* miss counters are capped at MaxLostFrames.
DDeliver(m, res) ==
    /\ m.this.leftLostFrames <= MaxLostFrames
    /\ m.this.rightLostFrames <= MaxLostFrames
    /\ dtracker' = m.this
    /\ calls' = m.calls
    /\ results' = res
    /\ missRun' = [left |-> MissRunAfter(res, "left"), right |-> MissRunAfter(res, "right")]
    /\ UNCHANGED <<tracker, lostRun, hyst, frameNo, detector, scene, twin>>

DOnResults(res) == DDeliver(DProcessResults(dtracker, res), res)

NextDebounce == \E res \in DFrames : DOnResults(res)

SpecDebounce == Init /\ [][NextDebounce]_vars

\* ---- role resolution: hands that are pairwise separate ----
\* Palm centres at least 0.18 apart from each other; the first and the
\* third have the same x.
RoleCentres == {<<300, 500>>, <<480, 500>>, <<300, 700>>}

RoleHands == {MakeHand(c[1], c[2], <<100, 0>>, Fist) : c \in RoleCentres}

RoleFrames == FramesOf(RoleHands)

NextRoles ==
    \E res \in RoleFrames :
        OnResults(res) /\ UNCHANGED <<dtracker, missRun, hyst, frameNo, detector, scene, twin>>

SpecRoles == Init /\ [][NextRoles]_vars

\* ---- smoothing windows: both hands move, the pinch varies ----
\* The primary hand at two places 0.1 apart, the secondary hand at two
\* places far from them, pinching at 0.05 or 0.1.
PrimaryHands == {MakeHand(x, 500, <<100, 0>>, Fist) : x \in {200, 300}}

SecondaryHands ==
    {MakeHand(x, 500, pv, Fist) : x \in {700, 800}, pv \in {<<30, 40>>, <<100, 0>>}}

\* No detection; the primary hand alone; the primary hand detected twice
\* (too close to be two hands); the primary and the secondary hand.
WindowFrames ==
    {Results(<<>>)}
        \cup {Results(<< <<p, "Right">> >>) : p \in PrimaryHands}
        \cup {Results(<< <<p, "Right">>, <<q, "Left">> >>) :
                  p \in PrimaryHands, q \in PrimaryHands \cup SecondaryHands}

NextWindows ==
    \E res \in WindowFrames :
        OnResults(res) /\ UNCHANGED <<dtracker, missRun, hyst, frameNo, detector, scene, twin>>

SpecWindows == Init /\ [][NextWindows]_vars

\* ---- the render loop and the detector ----
\* Mutant of Busy: the _isProcessing flag is not consulted.
Busy_Never(this) == FALSE

\* if (this._isProcessing) return;
Busy(this) == this._isProcessing

\* processFrame up to its await, called from animate() on a render tick.
ProcessFrame ==
    /\ IF Busy(tracker)
       THEN /\ detector' = [detector EXCEPT !.outcome = "skipped", !.tick = 1 - @]
            /\ UNCHANGED tracker
       ELSE IF ~detector.loaded \/ detector.readyState < 2
       THEN /\ detector' = [detector EXCEPT !.outcome = "notReady", !.tick = 1 - @]
            /\ UNCHANGED tracker
       ELSE /\ tracker' = [tracker EXCEPT !._isProcessing = TRUE]
            /\ detector' = [detector EXCEPT !.inFlight = @ + 1, !.outcome = "sent",
                                            !.tick = 1 - @]
    /\ UNCHANGED <<dtracker, results, calls, lostRun, missRun, hyst, frameNo, scene, twin>>

\* The frames the detector reports in this configuration.
LoopFrames ==
    {Results(<<>>),
     Results(<< <<PositionHand, "Right">> >>),
     Results(<< <<PositionHand, "Right">>, <<MakeHand(700, 500, <<100, 0>>, Fist), "Left">> >>)}

\* A send in flight calls the onResults listener, once, before it settles.
SendDelivers(res) ==
    /\ detector.inFlight > 0
    /\ ~detector.delivered
    /\ OnResults(res)
    /\ detector' = [detector EXCEPT !.delivered = TRUE]
    /\ UNCHANGED <<dtracker, missRun, hyst, frameNo, scene, twin>>

\* The promise of a send in flight settles: resolved after its results, or
\* rejected (a dropped frame, caught at line 102).
SendSettles ==
    /\ detector.inFlight > 0
    /\ \E how \in {"resolved", "rejected"} :
          detector' = [detector EXCEPT !.inFlight = @ - 1, !.delivered = FALSE,
                                       !.resuming = @ + 1, !.settled = how]
    /\ UNCHANGED <<tracker, dtracker, results, calls, lostRun, missRun, hyst, frameNo,
                   scene, twin>>

\* Mutant of AfterAwait: no try/catch, a rejection leaves processFrame at
\* the await and the flag set.
AfterAwait_NoCatch(this, how) ==
    IF how = "rejected" THEN this ELSE [this EXCEPT !._isProcessing = FALSE]

\* try { await send(...) } catch (e) { } this._isProcessing = false;
\* the rejection is caught and dropped, the assignment runs either way.
AfterAwait(this, how) == [this EXCEPT !._isProcessing = FALSE]

\* processFrame resumes after its await.
ProcessFrameResumes ==
    /\ detector.resuming > 0
    /\ tracker' = AfterAwait(tracker, detector.settled)
    /\ detector' = [detector EXCEPT !.resuming = @ - 1]
    /\ UNCHANGED <<dtracker, results, calls, lostRun, missRun, hyst, frameNo, scene, twin>>

\* The video element gains or loses current data.
VideoReadyState ==
    /\ detector' = [detector EXCEPT !.readyState = IF @ >= 2 THEN 1 ELSE 2]
    /\ UNCHANGED <<tracker, dtracker, results, calls, lostRun, missRun, hyst, frameNo,
                   scene, twin>>

InitLoop ==
    /\ Constructed
    /\ detector \in {NewDetector(loaded, 1) : loaded \in BOOLEAN}
    /\ scene = NewScene

NextLoop ==
    \/ ProcessFrame
    \/ \E res \in LoopFrames : SendDelivers(res)
    \/ SendSettles
    \/ ProcessFrameResumes
    \/ VideoReadyState

SpecLoop == InitLoop /\ [][NextLoop]_vars

\* The render loop with every send settling in the end (the detector's
\* promise is not left pending) and every settled await resumed (the
\* continuation of an async function is a microtask the event loop runs).
SpecLoopFair ==
    /\ InitLoop
    /\ [][NextLoop]_vars
    /\ WF_vars(SendSettles)
    /\ WF_vars(ProcessFrameResumes)

\* ---- detections with a wrong number of keypoints ----
\* The first n keypoints of a hand, and a hand with a 22nd keypoint.
Truncated(landmarks, n) == [i \in 0..(n - 1) |-> landmarks[i]]

Extended(landmarks) ==
    [i \in 0..21 |-> IF i <= 20 THEN landmarks[i] ELSE landmarks[20]]

\* landmarks.length
KeypointCount(landmarks) == Cardinality(DOMAIN landmarks)

\* Frames with one detection of 5, 18, 21 or 22 keypoints, and frames with
\* a primary hand and a secondary hand of 21 or 22 keypoints.
MalformedFrames ==
    {Results(<<>>)}
        \cup {Results(<< <<h, "Right">> >>) :
                  h \in PrimaryHands \cup {Truncated(PositionHand, 5),
                                           Truncated(PositionHand, 18),
                                           Extended(PositionHand)}}
        \cup {Results(<< <<PositionHand, "Right">>, <<h, "Left">> >>) :
                  h \in {MakeHand(700, 500, <<100, 0>>, Fist),
                         Extended(MakeHand(800, 500, <<100, 0>>, Fist))}}

\* _processResults on a one-detection frame whose detection has no keypoint
\* 5: the branch for one hand assigns its fields (lines 128-135), then
\* _calculatePalmCenter reads landmarks[5].x of undefined and throws a
\* TypeError out of _processResults, before any push or callback.
ThrowsInPalmCenter(this) ==
    [this |-> PositionOnly([this EXCEPT !._firstResultReceived = TRUE]),
     calls |-> <<[type |-> "TypeError"]>>]

\* The detector delivers a frame that may hold a malformed detection.
OnMalformedResults(res) ==
    IF Len(res.multiHandLandmarks) = 1 /\ KeypointCount(res.multiHandLandmarks[1]) <= 5
    THEN Deliver(ThrowsInPalmCenter(tracker), res)
    ELSE OnResults(res)

NextMalformed ==
    \E res \in MalformedFrames :
        OnMalformedResults(res) /\ UNCHANGED <<dtracker, missRun, hyst, frameNo, detector,
                                               scene, twin>>

SpecMalformed == Init /\ [][NextMalformed]_vars

\* ---- the palm centre on its own, next to frames being processed ----
\* A hand around (300, 500) whose keypoints in moved are 10 ticks further to
\* the right, and whose keypoints other than 0, 5, 6, 9, 13, 17 are dy ticks
\* further down.
PalmHand(moved, dy) ==
    [i \in 0..20 |->
        IF i \in {0, 5, 6, 9, 13, 17}
        THEN [x |-> PositionHand[i].x + (IF i \in moved THEN 10 ELSE 0),
              y |-> PositionHand[i].y]
        ELSE [x |-> PositionHand[i].x, y |-> PositionHand[i].y + dy]]

\* At most two of the keypoints 0, 5, 6, 9, 13, 17 moved.
PalmHands ==
    {PalmHand(moved, dy) :
        moved \in {s \in SUBSET {0, 5, 6, 9, 13, 17} : Cardinality(s) <= 2},
        dy \in {0, 7}}

\* _calculatePalmCenter(landmarks) called on a detection, outside any frame
\* processing; the value it returns is recorded.
PalmCenterOf(landmarks) ==
    /\ results' = Results(<< <<landmarks, "Right">> >>)
    /\ calls' = <<[type |-> "palmCenter", value |-> CalculatePalmCenter(landmarks)]>>
    /\ UNCHANGED <<tracker, dtracker, lostRun, missRun, hyst, frameNo, detector, scene, twin>>

\* No detection, one hand, a split artifact, two separate hands.
PalmFrames ==
    LoopFrames \cup
        {Results(<< <<MakeHand(200, 500, <<100, 0>>, Fist), "Left">>,
                    <<PositionHand, "Right">> >>)}

NextPalm ==
    \/ \E landmarks \in PalmHands : PalmCenterOf(landmarks)
    \/ \E res \in PalmFrames :
           OnResults(res) /\ UNCHANGED <<dtracker, missRun, hyst, frameNo, detector,
                                         scene, twin>>

SpecPalm == Init /\ [][NextPalm]_vars

\* ---- hands on the border of the image ----
\* A hand all of whose keypoints are at (x, y), a corner of the image, but
\* for the index tip, which is 100 ticks inwards.
EdgeHand(x, y) ==
    [i \in 0..20 |->
        IF i = 8
        THEN [x |-> IF x = 0 THEN 100 ELSE x - 100, y |-> y]
        ELSE [x |-> x, y |-> y]]

EdgeHands == {EdgeHand(0, 0), EdgeHand(1000, 0), EdgeHand(1000, 1000)}

\* No detection, one hand, two hands (the same hand twice is a split
\* artifact).
EdgeFrames ==
    {Results(<<>>)}
        \cup {Results(<< <<p, "Right">> >>) : p \in EdgeHands}
        \cup {Results(<< <<p, "Right">>, <<q, "Left">> >>) :
                  p \in EdgeHands, q \in EdgeHands}

NextEdges ==
    \E res \in EdgeFrames :
        OnResults(res) /\ UNCHANGED <<dtracker, missRun, hyst, frameNo, detector, scene, twin>>

SpecEdges == Init /\ [][NextEdges]_vars

\* ---- tracking restarted: init called on a tracker that has run ----
\* init(videoElement): assigns videoElement, handsInstance and isReady and
\* registers the onResults listener; no other field of the tracker is
\* assigned.  With Hands undefined it returns after the first assignment.
InitAgain ==
    /\ detector' = [detector EXCEPT !.outcome = "init"]
    /\ UNCHANGED <<tracker, dtracker, results, calls, lostRun, missRun, hyst, frameNo,
                   scene, twin>>

NextRestart ==
    \/ \E res \in PalmFrames :
           OnResults(res) /\ UNCHANGED <<dtracker, missRun, hyst, frameNo, detector,
                                         scene, twin>>
    \/ InitAgain

SpecRestart == Init /\ [][NextRestart]_vars

\* ---- pinch gestures interrupted by absences of the secondary hand ----
\* The frames of a pinch gesture, and the primary hand detected twice (a
\* split artifact).
AbsenceFrames ==
    PinchFrames \cup
        {Results(<< <<PositionHand, "Right">>, <<PositionHand, "Left">> >>)}

NextAbsence ==
    \E res \in AbsenceFrames :
        OnResults(res) /\ UNCHANGED <<dtracker, missRun, hyst, frameNo, detector, scene, twin>>

SpecAbsence == Init /\ [][NextAbsence]_vars

\* ---- _processResults statement by statement ----
\* The listener's position is detector.listener; results is the frame it is
\* processing; tracker and calls change as its statements run.
ListenerAt(step) == detector.listener = step

ListenerGoes(m, step) ==
    /\ tracker' = m.this
    /\ calls' = m.calls
    /\ detector' = [detector EXCEPT !.listener = step]
    /\ UNCHANGED <<dtracker, results, lostRun, missRun, hyst, frameNo, scene, twin>>

Running == [this |-> tracker, calls |-> calls]

\* Two detections whose palm centres are too close (line 148).
SplitArtifact(res) ==
    /\ Len(res.multiHandLandmarks) = 2
    /\ TooClose(CalculatePalmCenter(res.multiHandLandmarks[1]),
                CalculatePalmCenter(res.multiHandLandmarks[2]))

\* leftIdx of the frame in progress (0 or 1).
LeftIdxOf(res) ==
    LeftIdx(res.multiHandedness[1].label, res.multiHandedness[2].label,
            CalculatePalmCenter(res.multiHandLandmarks[1]),
            CalculatePalmCenter(res.multiHandLandmarks[2]))

\* The detector calls the listener with a frame (lines 106-110).
ListenerBegins(res) ==
    /\ ListenerAt("idle")
    /\ results' = res
    /\ calls' = <<>>
    /\ tracker' = [tracker EXCEPT !._firstResultReceived = TRUE]
    /\ detector' = [detector EXCEPT !.listener = "begun"]
    /\ UNCHANGED <<dtracker, lostRun, missRun, hyst, frameNo, scene, twin>>

\* The assignments at the head of the branch taken.
ListenerAssigns ==
    /\ ListenerAt("begun")
    /\ IF Len(results.multiHandLandmarks) = 0
       THEN ListenerGoes([Running EXCEPT !.this = ClearRoles(@)], "zeroAssigned")
       ELSE IF Len(results.multiHandLandmarks) = 1 \/ SplitArtifact(results)
       THEN ListenerGoes([Running EXCEPT !.this = PositionOnly(@)], "oneAssigned")
       ELSE ListenerGoes([Running EXCEPT !.this = BothRoles(@)], "twoAssigned")

\* this._processLeftHand(...), lines 137, 161 and 193.
ListenerProcessesLeft ==
    \/ /\ ListenerAt("oneAssigned")
       /\ ListenerGoes(ProcessLeftHand(Running, results.multiHandLandmarks[1]), "processed")
    \/ /\ ListenerAt("twoAssigned")
       /\ ListenerGoes(
              ProcessLeftHand(Running, results.multiHandLandmarks[LeftIdxOf(results) + 1]),
              "leftProcessed")

\* this._processRightHand(...), line 194.
ListenerProcessesRight ==
    /\ ListenerAt("leftProcessed")
    /\ ListenerGoes(
           ProcessRightHand(Running, results.multiHandLandmarks[2 - LeftIdxOf(results)]),
           "processed")

\* this._updateStatusUI(...), lines 119 and 198.
ListenerUpdatesStatus ==
    \/ /\ ListenerAt("zeroAssigned")
       /\ ListenerGoes(UpdateStatusUI(Running, FALSE, FALSE), "zeroStatus")
    \/ /\ ListenerAt("processed")
       /\ ListenerGoes(
              UpdateStatusUI(Running, tracker.leftHandDetected, tracker.rightHandDetected),
              "idle")

\* if (this.onHandsLost) this.onHandsLost(); return;  (lines 120-121)
ListenerCallsHandsLost ==
    /\ ListenerAt("zeroStatus")
    /\ ListenerGoes(Emit(Running, [type |-> "onHandsLost"]), "idle")

NextOrder ==
    \/ \E res \in PalmFrames : ListenerBegins(res)
    \/ ListenerAssigns
    \/ ListenerProcessesLeft
    \/ ListenerProcessesRight
    \/ ListenerUpdatesStatus
    \/ ListenerCallsHandsLost

SpecOrder == Init /\ [][NextOrder]_vars

\* ---- the scene controller's handlers ----
\* A call on the Earth made by a handler is recorded in earthCalls.
EarthCall(sc, call) == [sc EXCEPT !.earthCalls = Append(@, call)]

\* Mutant of SetVisible: the Earth can be shown but not hidden.
SetVisible_ShowOnly(sc, visible) ==
    EarthCall([sc EXCEPT !.earth.visible = @ \/ visible],
              [type |-> "setVisible", visible |-> visible])

\* earth.setVisible(visible): this.group is set by the constructor.
SetVisible(sc, visible) ==
    EarthCall([sc EXCEPT !.earth.visible = visible],
              [type |-> "setVisible", visible |-> visible])

\* earth.setPosition(x, y, 0)
SetPosition(sc, x, y) ==
    EarthCall([sc EXCEPT !.earth.targetPosition = [x |-> x, y |-> y, z |-> 0]],
              [type |-> "setPosition", x |-> x, y |-> y])

\* The first statement of handleLeftHand.
ActivateHands(sc) ==
    IF ~sc.handsAreActive
    THEN SetVisible([sc EXCEPT !.handsAreActive = TRUE], TRUE)
    ELSE sc

\* The rest of handleLeftHand: x = (0.5 - palmCenter.x) * sw,
\* y = -(palmCenter.y - 0.5) * sh, setPosition(x, y + 40, 0).
FollowHand(sc, data, win) ==
    IF ~sc.settings.followHand THEN sc
    ELSE SetPosition(sc, (500 * FINE - data.palmCenter.x) * win.innerWidth,
                     (0 - (data.palmCenter.y - 500 * FINE)) * win.innerHeight
                         + 40 * 1000 * FINE)

handleLeftHand(sc, data, win) ==
    FollowHand(ActivateHands([sc EXCEPT !.earthCalls = <<>>, !.primarySeen = TRUE]),
               data, win)

HideEarth(sc) ==
    IF sc.handsAreActive
    THEN SetVisible([sc EXCEPT !.handsAreActive = FALSE], FALSE)
    ELSE sc

handleHandsLost(sc) == HideEarth([sc EXCEPT !.earthCalls = <<>>, !.primarySeen = FALSE])

\* Earth.load: on success the group is hidden and loaded is set (lines
\* 84-86); on failure boot catches the error and goes on.
EarthLoad(sc, ok) ==
    IF ok THEN [sc EXCEPT !.earth.visible = FALSE, !.earth.loaded = TRUE] ELSE sc

\* window.innerWidth x window.innerHeight when an event is handled.
Windows == {[innerWidth |-> 1280, innerHeight |-> 720],
            [innerWidth |-> 800, innerHeight |-> 600]}

\* Payloads of primary updates: the palm at (0.3, 0.5), (0.7, 0.2) or
\* (0.5, 0.9).
PrimaryData ==
    {[palmCenter |-> [x |-> 300 * FINE, y |-> 500 * FINE], landmarks |-> PositionHand],
     [palmCenter |-> [x |-> 700 * FINE, y |-> 200 * FINE],
      landmarks |-> MakeHand(700, 200, <<100, 0>>, Fist)],
     [palmCenter |-> [x |-> 500 * FINE, y |-> 900 * FINE],
      landmarks |-> MakeHand(500, 900, <<100, 0>>, Fist)]}

SceneUnchanged ==
    UNCHANGED <<tracker, dtracker, results, calls, lostRun, missRun, hyst, frameNo,
                detector, twin>>

LeftHandEvent ==
    /\ \E data \in PrimaryData, win \in Windows : scene' = handleLeftHand(scene, data, win)
    /\ SceneUnchanged

HandsLostEvent ==
    /\ scene' = handleHandsLost(scene)
    /\ SceneUnchanged

\* The 'toggle-follow' checkbox changes.
ToggleFollow ==
    /\ \E checked \in BOOLEAN : scene' = [scene EXCEPT !.settings.followHand = checked]
    /\ SceneUnchanged

\* boot has run: the Earth's model loaded or failed to, handlers registered.
InitScene ==
    /\ Constructed
    /\ detector = NewDetector(TRUE, 2)
    /\ scene \in {EarthLoad(NewScene, ok) : ok \in BOOLEAN}

NextScene == LeftHandEvent \/ HandsLostEvent \/ ToggleFollow

SpecScene == InitScene /\ [][NextScene]_vars

\* ---- the Earth's scale ----
\* Math.max(0.15, Math.min(5.0, zoomStartScale * factor)) with the factor a
\* ratio num / den, den > 0: the comparisons are exact, a product inside
\* the range is rounded down to a multiple of 1 / SCALE_ONE.
ClampScale(zoomStartScale, factor) ==
    IF zoomStartScale * factor.num >= MAX_SCALE * factor.den THEN MAX_SCALE
    ELSE IF zoomStartScale * factor.num <= MIN_SCALE * factor.den THEN MIN_SCALE
    ELSE (zoomStartScale * factor.num) \div factor.den

\* this.zoomStartScale === undefined || this.zoomStartScale === null
Unset(zoomStartScale) == zoomStartScale \in {UNDEFINED, NULL}

\* Mutant of ZoomStart: the reference is captured on every call.
ZoomStart_Recaptured(earth) == Number(earth.currentScale)

\* The zoom-start reference after the capture of lines 137-139.
ZoomStart(earth) ==
    IF Unset(earth.zoomStartScale) THEN Number(earth.currentScale)
    ELSE earth.zoomStartScale

\* Mutant of setScaleFactor: a call with isZooming false changes nothing.
setScaleFactor_KeepsStart(earth, factor, isZooming) ==
    IF isZooming
    THEN [earth EXCEPT !.zoomStartScale = ZoomStart(earth),
                       !.targetScale = ClampScale(ZoomStart(earth).value, factor)]
    ELSE earth

\* Earth.setScaleFactor(factor, isZooming) on the Earth's fields.
setScaleFactor(earth, factor, isZooming) ==
    IF isZooming
    THEN [earth EXCEPT !.zoomStartScale = ZoomStart(earth),
                       !.targetScale = ClampScale(ZoomStart(earth).value, factor)]
    ELSE [earth EXCEPT !.zoomStartScale = NULL]

\* Earth.update, the scale: currentScale += (targetScale - currentScale) *
\* SCALE_LERP (0.18), rounded down to a multiple of 1 / SCALE_ONE.  The
\* position lerp and the rotation act on the three.js objects only.
EarthUpdateScale(earth) ==
    IF ~earth.loaded THEN earth
    ELSE [earth EXCEPT !.currentScale = @ + ((earth.targetScale - @) * 18) \div 100]

\* Factors: a half, one, the double, a hundredfold, zero and minus one.
Factors ==
    {[num |-> 1, den |-> 2], [num |-> 1, den |-> 1], [num |-> 2, den |-> 1],
     [num |-> 100, den |-> 1], [num |-> 0, den |-> 1], [num |-> -1, den |-> 1]}

\* A caller calls earth.setScaleFactor(factor, isZooming).
ScaleFactorCall(factor, isZooming) ==
    /\ scene' = [scene EXCEPT !.earth = setScaleFactor(@, factor, isZooming),
                              !.zoomRun = isZooming]
    /\ SceneUnchanged

\* animate() calls earth.update(handsAreActive), in a run capped at max
\* calls.
EarthUpdateUpTo(max) ==
    /\ scene.updates < max
    /\ scene' = [scene EXCEPT !.earth = EarthUpdateScale(@), !.updates = @ + 1]
    /\ SceneUnchanged

EarthUpdate == EarthUpdateUpTo(MaxUpdates)

NextZoom ==
    \/ \E factor \in Factors, isZooming \in BOOLEAN : ScaleFactorCall(factor, isZooming)
    \/ EarthUpdate

SpecZoom == InitScene /\ [][NextZoom]_vars

\* ---- the tracker wired to the scene controller ----
\* earth.setScaleFactor(data.scaleFactor, data.isZooming) when the zoom
\* setting is on.
ZoomEarth(sc, data) ==
    IF sc.settings.enableZoom
    THEN EarthCall([sc EXCEPT !.earth = setScaleFactor(@, data.scaleFactor, data.isZooming)],
                   [type |-> "setScaleFactor", isZooming |-> data.isZooming])
    ELSE sc

\* The rotation of handleRightHand: outside the dead zone of 0.003,
\* earth.addRotation(rotationDelta.y * 15, -rotationDelta.x * 15).
RotateEarth(sc, data) ==
    IF /\ sc.settings.enableManualRotate
       /\ \/ Abs(data.rotationDelta.x) > 3 * FINE
          \/ Abs(data.rotationDelta.y) > 3 * FINE
    THEN EarthCall([sc EXCEPT !.earth.velocityRotX = @ + data.rotationDelta.y * 15,
                              !.earth.velocityRotY = @ - data.rotationDelta.x * 15],
                   [type |-> "addRotation"])
    ELSE sc

handleRightHand(sc, data) == RotateEarth(ZoomEarth([sc EXCEPT !.earthCalls = <<>>], data), data)

\* The handler registered for a callback of the tracker (setCallbacks in
\* boot); the status refresh is the tracker's own.
Handle(sc, call, win) ==
    CASE call.type = "onLeftHand" -> handleLeftHand(sc, call, win)
      [] call.type = "onRightHand" -> handleRightHand(sc, call)
      [] call.type = "onHandsLost" -> handleHandsLost(sc)
      [] OTHER -> sc

\* The handlers run for the callbacks cs[i..] of one delivery, in order.
RECURSIVE Dispatch(_, _, _, _)
Dispatch(sc, cs, i, win) ==
    IF i > Len(cs) THEN sc ELSE Dispatch(Handle(sc, cs[i], win), cs, i + 1, win)

WiredDeliver(m, res, win) ==
    /\ Deliver(m, res)
    /\ scene' = Dispatch(scene, m.calls, 1, win)
    /\ UNCHANGED <<dtracker, missRun, hyst, frameNo, detector, twin>>

\* A delivery to the tracker whose callbacks are the scene controller's
\* handlers.
WiredOnResults(res, win) == WiredDeliver(ProcessResults(tracker, res), res, win)

\* The secondary hand with all three fingers curled: pinched (thumb and
\* index tips together, or 0.05 apart) or open (0.2 apart); and pinched with
\* the pinky stretched.
WiredHands ==
    {MakeHand(700, 500, pv, Fist) : pv \in {<<0, 0>>, <<30, 40>>, <<200, 0>>}}
        \cup {MakeHand(700, 500, <<0, 0>>, {12, 16})}

WiredFrames ==
    {Results(<<>>), Results(<< <<PositionHand, "Right">> >>)}
        \cup {Results(<< <<PositionHand, "Right">>, <<h, "Left">> >>) : h \in WiredHands}

NextWired ==
    \/ \E res \in WiredFrames, win \in {w \in Windows : w.innerWidth = 1280} :
           WiredOnResults(res, win)
    \/ EarthUpdateUpTo(MaxWiredUpdates)

SpecWired == InitScene /\ [][NextWired]_vars

\* ---- two trackers fed the same frames, one of them in debug mode ----
TwinDeliver(m, res, t) ==
    /\ Deliver(m, res)
    /\ twin' = t
    /\ UNCHANGED <<dtracker, missRun, hyst, frameNo, detector, scene>>

\* The detector's frame is delivered to both trackers.
TwinOnResults(res) ==
    TwinDeliver(ProcessResults(tracker, res), res, ProcessResults(twin.this, res))

\* setDebugMode is called on the second tracker.
TwinSetDebugMode ==
    /\ \E enabled \in BOOLEAN : twin' = [twin EXCEPT !.this = setDebugMode(@, enabled)]
    /\ UNCHANGED <<tracker, dtracker, results, calls, lostRun, missRun, hyst, frameNo,
                   detector, scene>>

NextDebug ==
    \/ \E res \in WiredFrames : TwinOnResults(res)
    \/ TwinSetDebugMode

SpecDebug == Init /\ [][NextDebug]_vars

\* ---- the finger analysis of _processRightHand on its own ----
\* A hand whose middle, ring and pinky tips are each curled (nearer the
\* wrist than the PIP joint), level (exactly as far from the wrist as the
\* PIP joint) or out (farther); the thumb tip is moved by tv and the index
\* tip by pv.
GateHand(cx, cy, pv, tv, tips) ==
    LET h == MakeHand(cx, cy, pv, {f \in Fist : tips[f] = "curled"})
    IN  [h EXCEPT
            ![4] = [x |-> @.x + tv[1], y |-> @.y + tv[2]],
            ![12] = IF tips[12] = "level" THEN [x |-> cx + 10, y |-> cy - 50] ELSE @,
            ![16] = IF tips[16] = "level" THEN [x |-> cx - 10, y |-> cy - 50] ELSE @,
            ![20] = IF tips[20] = "level" THEN [x |-> cx - 30, y |-> cy - 45] ELSE @]

TipStates == {"curled", "level", "out"}

GateHands ==
    {GateHand(700, 500, pv, tv, tips) :
        pv \in {<<0, 0>>, <<30, 40>>, <<100, 0>>},
        tv \in {<<0, 0>>, <<-20, 15>>},
        tips \in [Fist -> TipStates]}

\* "Analyze Finger States" of _processRightHand on a detection: the three
\* finger states and the strict-gesture gate, as the debug log reports them.
AnalyzeFingers(landmarks) ==
    /\ results' = Results(<< <<landmarks, "Left">> >>)
    /\ calls' = <<[type |-> "fingerStates",
                   middleClosed |-> IsFingerClosed(landmarks, 12, 10),
                   ringClosed |-> IsFingerClosed(landmarks, 16, 14),
                   pinkyClosed |-> IsFingerClosed(landmarks, 20, 18),
                   isStrictGestureValid |-> IsStrictGestureValid(landmarks)]>>
    /\ UNCHANGED <<tracker, dtracker, lostRun, missRun, hyst, frameNo, detector, scene, twin>>

NextGate == \E landmarks \in GateHands : AnalyzeFingers(landmarks)

SpecGate == Init /\ [][NextGate]_vars

\* ======================= claims =======================

\* What the claims read off a state: the frame just processed and the
\* update events it produced.
Processed == tracker._firstResultReceived
NumDetections == Len(results.multiHandLandmarks)
PrimaryUpdates == SelectSeq(calls, LAMBDA c : c.type = "onLeftHand")
SecondaryUpdates == SelectSeq(calls, LAMBDA c : c.type = "onRightHand")

\* Five times the raw palm centre of a detection, in ticks, taken from the
\* keypoints themselves.
PalmSum(landmarks) ==
    [x |-> landmarks[0].x + landmarks[5].x + landmarks[9].x + landmarks[13].x + landmarks[17].x,
     y |-> landmarks[0].y + landmarks[5].y + landmarks[9].y + landmarks[13].y + landmarks[17].y]

\* The raw palm-centre separation of a two-detection frame is below 0.18.
SeparationBelow(res) ==
    LET a == PalmSum(res.multiHandLandmarks[1])
        b == PalmSum(res.multiHandLandmarks[2])
    IN  (a.x - b.x) * (a.x - b.x) + (a.y - b.y) * (a.y - b.y) < (5 * 180) * (5 * 180)

\* A frame that assigns the secondary role: two detections, not too close.
AssignsSecondary(res) ==
    Len(res.multiHandLandmarks) = 2 /\ ~SeparationBelow(res)

\* C1: after a frame with one detection the primary role holds that
\* detection (one primary update carrying it, whatever its label); after a
\* frame with no detection neither role is assigned; after either, the
\* secondary role is absent and no secondary update was emitted.
C1_SingleDetectionIsPrimary ==
    (Processed /\ NumDetections <= 1) =>
        /\ ~tracker.rightHandDetected
        /\ SecondaryUpdates = <<>>
        /\ NumDetections = 1 =>
            /\ tracker.leftHandDetected
            /\ PrimaryUpdates = <<[type |-> "onLeftHand",
                                   palmCenter |-> tracker.leftPalm,
                                   landmarks |-> results.multiHandLandmarks[1]]>>
        /\ NumDetections = 0 =>
            /\ ~tracker.leftHandDetected
            /\ PrimaryUpdates = <<>>

\* A lone detection labelled "Left" (the user's right hand) was made primary
\* right after a frame that had assigned the secondary role.
C1_Witness ==
    /\ Processed
    /\ NumDetections = 1
    /\ results.multiHandedness[1].label = "Left"
    /\ tracker.leftHandDetected
    /\ tracker.rightPalm # NewHandTracker.rightPalm
    /\ Len(PrimaryUpdates) = 1

\* C2: after a frame with two detections whose raw palm centres are less
\* than 0.18 apart, only the primary role is assigned: the secondary role
\* is absent and no secondary update was emitted, whatever the two labels.
C2_SplitArtifactIsPrimaryOnly ==
    (Processed /\ NumDetections = 2 /\ SeparationBelow(results)) =>
        /\ tracker.leftHandDetected
        /\ ~tracker.rightHandDetected
        /\ Len(PrimaryUpdates) = 1
        /\ SecondaryUpdates = <<>>

\* Two detections 100 ticks apart with differing labels, of which the
\* second is the one the labels call the user's left hand.
C2_Witness ==
    /\ Processed
    /\ NumDetections = 2
    /\ SeparationBelow(results)
    /\ results.multiHandedness[1].label = "Left"
    /\ results.multiHandedness[2].label = "Right"
    /\ ~tracker.rightHandDetected
    /\ Len(PrimaryUpdates) = 1

\* C6 (as claimed): within a run of frames that each end with both roles
\* absent, onHandsLost has been called exactly once.
C6_HandsLostOncePerRun ==
    (Processed /\ ~tracker.leftHandDetected /\ ~tracker.rightHandDetected) => lostRun = 1

\* C10: a frame that assigns the secondary role emits rotationDelta (0, 0)
\* when the frame before it did not assign the role (or there was none),
\* and otherwise the difference of the smoothed secondary palm positions of
\* the two frames.
C10_RotationDelta ==
    [][AssignsSecondary(results') =>
        /\ Len(SecondaryUpdates') = 1
        /\ SecondaryUpdates'[1].rotationDelta =
              IF Processed /\ AssignsSecondary(results)
              THEN [x |-> tracker'.rightPalm.x - tracker.rightPalm.x,
                    y |-> tracker'.rightPalm.y - tracker.rightPalm.y]
              ELSE [x |-> 0, y |-> 0]]_vars

\* A secondary update with a rotation delta that is not zero.
C10_Witness ==
    /\ Processed
    /\ AssignsSecondary(results)
    /\ Len(SecondaryUpdates) = 1
    /\ SecondaryUpdates[1].rotationDelta.x # 0

\* The curl gate of the detection a secondary update carries.
GateHeld(update) == IsStrictGestureValid(update.landmarks)

\* C3: on a frame that assigns the secondary role while Idle, the state
\* becomes Engaged exactly when the smoothed pinch distance is below 0.05
\* and the curl gate holds, and then startPinchDistance is that distance.
C3_EngageIff ==
    [][(AssignsSecondary(results') /\ ~tracker.isZooming) =>
        /\ Len(SecondaryUpdates') = 1
        /\ tracker'.isZooming <=>
              (tracker'.pinchDistance < 50 * FINE /\ GateHeld(SecondaryUpdates'[1]))
        /\ tracker'.isZooming => tracker'.startPinchDistance = tracker'.pinchDistance]_vars

\* Engaged on a smoothed distance that no single raw distance equals.
C3_Witness ==
    /\ AssignsSecondary(results)
    /\ tracker.isZooming
    /\ tracker.startPinchDistance = tracker.pinchDistance
    /\ tracker.pinchDistance = 40 * FINE

\* C4: on a frame that assigns the secondary role while Engaged, the state
\* becomes Idle exactly when the smoothed pinch distance is above 0.08, or
\* it grew by more than 0.02 since the previous smoothed distance, or the
\* curl gate does not hold.
C4_DisengageIff ==
    [][(AssignsSecondary(results') /\ tracker.isZooming) =>
        /\ Len(SecondaryUpdates') = 1
        /\ ~tracker'.isZooming <=>
              \/ tracker'.pinchDistance > 80 * FINE
              \/ tracker'.pinchDistance - tracker.pinchDistance > 20 * FINE
              \/ ~GateHeld(SecondaryUpdates'[1])]_vars

\* Idle after a secondary frame with the gate held and the smoothed distance
\* below the engage threshold: only the clutch, out of Engaged, leaves that.
C4_Witness ==
    /\ AssignsSecondary(results)
    /\ Len(SecondaryUpdates) = 1
    /\ GateHeld(SecondaryUpdates[1])
    /\ tracker.pinchDistance < 50 * FINE
    /\ ~tracker.isZooming

\* C5 (as claimed): over a test sequence the pinch state has entered Engaged
\* exactly once as soon as the smoothed distance has fallen below 0.05 (and
\* not before), has entered Idle at most once, and exactly once as soon as
\* the smoothed distance of the increasing part has gone above 0.08.
C5_HysteresisOnce ==
    /\ hyst.engaged = IF hyst.below THEN 1 ELSE 0
    /\ hyst.released <= 1
    /\ hyst.above => hyst.released = 1

\* C9 (as claimed): in the scenario no frame calls onHandsLost and the
\* primary role is live after every frame.
C9_ScenarioStaysLive ==
    /\ HandsLostCalls(calls) = 0
    /\ frameNo >= 1 => tracker.leftHandDetected

\* The debounced live flag of a role of the debouncing tracker.
Live(role) ==
    IF role = "left" THEN dtracker.leftHandDetected ELSE dtracker.rightHandDetected

Roles == {"left", "right"}

\* C7: a role that has been assigned and has since gone at most 5 frames in
\* a row without being assigned is live.
C7_LiveThroughShortGaps ==
    \A role \in Roles : (missRun[role] >= 0 /\ missRun[role] <= 5) => Live(role)

\* Both roles still live after exactly 5 frames without any detection.
C7_Witness ==
    /\ missRun = [left |-> 5, right |-> 5]
    /\ NumDetections = 0
    /\ Live("left")
    /\ Live("right")

\* C8: a role's live flag turns false on its 6th consecutive miss and on no
\* other frame, and once false it turns true only on a frame that assigns
\* the role.
C8_LostOncePerRun ==
    [][\A role \in Roles :
        /\ (Live(role) /\ ~Live(role)') => missRun'[role] = 6
        /\ missRun'[role] = 6 => ~Live(role)'
        /\ (~Live(role) /\ Live(role)') => missRun'[role] = 0]_vars

\* The right role reported absent on its 6th miss while the left role, seen
\* in that frame, is live.
C8_Witness ==
    /\ missRun = [left |-> 0, right |-> 6]
    /\ ~Live("right")
    /\ Live("left")

\* Two rationals num/den with non-zero denominators are the same number.
SameRatio(a, b) == a.num * b.den = b.num * a.den

\* C11: startPinchDistance changes only on an Idle->Engaged transition,
\* where it becomes the smoothed distance of that frame; a secondary update
\* carries the pinch state, and its scaleFactor is the smoothed distance
\* over startPinchDistance when Engaged on a start distance above 0.001,
\* and exactly 1.0 otherwise (Idle, or a start distance not above 0.001).
C11_ScaleFactor ==
    [][/\ tracker'.startPinchDistance =
              IF ~tracker.isZooming /\ tracker'.isZooming
              THEN tracker'.pinchDistance
              ELSE tracker.startPinchDistance
       /\ AssignsSecondary(results') =>
              /\ Len(SecondaryUpdates') = 1
              /\ SecondaryUpdates'[1].isZooming = tracker'.isZooming
              /\ IF tracker'.isZooming /\ tracker'.startPinchDistance > 1 * FINE
                 THEN /\ SameRatio(SecondaryUpdates'[1].scaleFactor,
                                   [num |-> tracker'.pinchDistance,
                                    den |-> tracker'.startPinchDistance])
                      /\ tracker'.pinchDistance = tracker'.startPinchDistance =>
                             SecondaryUpdates'[1].scaleFactor.num =
                                 SecondaryUpdates'[1].scaleFactor.den
                 ELSE SecondaryUpdates'[1].scaleFactor = [num |-> 1, den |-> 1]]_vars

\* An Engaged secondary update, after the engagement frame, whose scale
\* factor is not 1.
C11_Witness ==
    /\ AssignsSecondary(results)
    /\ tracker.isZooming
    /\ Len(SecondaryUpdates) = 1
    /\ SecondaryUpdates[1].isZooming
    /\ tracker.startPinchDistance > 1 * FINE
    /\ tracker.pinchDistance # tracker.startPinchDistance
    /\ SecondaryUpdates[1].scaleFactor.num # SecondaryUpdates[1].scaleFactor.den

\* The finger analysis recorded for the detection in results.
FingerStates == SelectSeq(calls, LAMBDA c : c.type = "fingerStates")

\* Squared 2D distance between two keypoints.
DistSq(p, q) == (p.x - q.x) * (p.x - q.x) + (p.y - q.y) * (p.y - q.y)

\* Keypoint tipIdx of the hand is strictly nearer the wrist than pipIdx.
Curled(landmarks, tipIdx, pipIdx) ==
    DistSq(landmarks[tipIdx], landmarks[0]) < DistSq(landmarks[pipIdx], landmarks[0])

\* Two hands that agree on the wrist and on the middle, ring and pinky
\* fingers (keypoints 0 and 9..20).
SameThreeFingers(g, h) == \A i \in {0} \cup 9..20 : g[i] = h[i]

\* C12: each finger is reported curled exactly when its tip is strictly
\* nearer the wrist than its PIP joint (squared 2D distances); the gate
\* holds exactly when middle, ring and pinky are all curled; and any hand
\* that differs only in the thumb and index keypoints has the same gate.
C12_CurlGate ==
    \A i \in 1..Len(FingerStates) :
        LET lm == results.multiHandLandmarks[1]
            f == FingerStates[i]
        IN  /\ f.middleClosed <=> Curled(lm, 12, 10)
            /\ f.ringClosed <=> Curled(lm, 16, 14)
            /\ f.pinkyClosed <=> Curled(lm, 20, 18)
            /\ f.isStrictGestureValid <=>
                   (Curled(lm, 12, 10) /\ Curled(lm, 16, 14) /\ Curled(lm, 20, 18))
            /\ \A h \in GateHands :
                   SameThreeFingers(lm, h) => IsStrictGestureValid(h) = f.isStrictGestureValid

\* Middle and ring curled, the pinky tip exactly as far from the wrist as
\* its PIP joint: the pinky is not curled and the gate does not hold.
C12_Witness ==
    /\ Len(FingerStates) = 1
    /\ FingerStates[1].middleClosed
    /\ FingerStates[1].ringClosed
    /\ ~FingerStates[1].pinkyClosed
    /\ ~FingerStates[1].isStrictGestureValid
    /\ DistSq(results.multiHandLandmarks[1][20], results.multiHandLandmarks[1][0])
           = DistSq(results.multiHandLandmarks[1][18], results.multiHandLandmarks[1][0])

\* The frame just processed gave the primary role to detection i and the
\* secondary role to the other one (detections numbered 1, 2).
RolesGiven(i) ==
    /\ tracker.leftHandDetected
    /\ tracker.rightHandDetected
    /\ Len(PrimaryUpdates) = 1
    /\ Len(SecondaryUpdates) = 1
    /\ PrimaryUpdates[1].landmarks = results.multiHandLandmarks[i]
    /\ SecondaryUpdates[1].landmarks = results.multiHandLandmarks[3 - i]

Label(i) == results.multiHandedness[i].label

\* C13: after a frame with two separate detections whose labels differ,
\* the detection labelled "Right" is primary and the other one secondary,
\* in either order of the two detections.
C13_LabelsResolveRoles ==
    (Processed /\ AssignsSecondary(results) /\ Label(1) # Label(2)) =>
        \A i \in {1, 2} : Label(i) = "Right" => RolesGiven(i)

\* The second detection is labelled "Right" and lies at the smaller x: the
\* labels, not the positions, made it primary.
C13_Witness ==
    /\ Processed
    /\ AssignsSecondary(results)
    /\ Label(1) = "Left"
    /\ Label(2) = "Right"
    /\ PalmSum(results.multiHandLandmarks[2]).x < PalmSum(results.multiHandLandmarks[1]).x
    /\ RolesGiven(2)

\* C14: after a frame with two separate detections both roles are assigned,
\* to different detections, for every combination of labels; with equal
\* labels the detection with the larger raw palm-centre x is primary, and
\* with equal x as well the second detection is.
C14_BothRolesAssigned ==
    (Processed /\ AssignsSecondary(results)) =>
        /\ RolesGiven(1) \/ RolesGiven(2)
        /\ Label(1) = Label(2) =>
              LET x1 == PalmSum(results.multiHandLandmarks[1]).x
                  x2 == PalmSum(results.multiHandLandmarks[2]).x
              IN  RolesGiven(IF x1 > x2 THEN 1 ELSE 2)

\* Two separate detections with the same label and the same palm-centre x.
C14_Witness ==
    /\ Processed
    /\ AssignsSecondary(results)
    /\ Label(1) = Label(2)
    /\ PalmSum(results.multiHandLandmarks[1]).x = PalmSum(results.multiHandLandmarks[2]).x
    /\ RolesGiven(2)

\* C15: the frame just processed emitted exactly one primary update if it
\* held at least one detection and none otherwise, and exactly one secondary
\* update if it held two separate detections and none otherwise; so each
\* update was emitted exactly when its role is live after the frame.
C15_UpdatesFollowRoles ==
    Processed =>
        /\ Len(PrimaryUpdates) = (IF NumDetections >= 1 THEN 1 ELSE 0)
        /\ Len(SecondaryUpdates) = (IF AssignsSecondary(results) THEN 1 ELSE 0)
        /\ tracker.leftHandDetected <=> Len(PrimaryUpdates) = 1
        /\ tracker.rightHandDetected <=> Len(SecondaryUpdates) = 1

\* A split-artifact frame right after a frame with both roles: one primary
\* update, no secondary update, the secondary role no longer live.
C15_Witness ==
    /\ Processed
    /\ NumDetections = 2
    /\ SeparationBelow(results)
    /\ Len(PrimaryUpdates) = 1
    /\ Len(SecondaryUpdates) = 0
    /\ ~tracker.rightHandDetected
    /\ tracker.rightPalm # NewHandTracker.rightPalm

\* The updates the frame just processed emitted for a role.
UpdatesOf(role) ==
    SelectSeq(calls, LAMBDA c : c.type = (IF role = "left" THEN "onLeftHand" ELSE "onRightHand"))

\* C16 (as claimed): after every frame of the debouncing tracker that leaves
\* a role live, the frame has emitted that role's update.
C16_LiveRoleIsUpdated ==
    \A role \in Roles :
        (dtracker._firstResultReceived /\ Live(role)) => Len(UpdatesOf(role)) >= 1

\* The last n entries of a sequence.
LastN(seq, n) == IF Len(seq) <= n THEN seq ELSE SubSeq(seq, Len(seq) - n + 1, Len(seq))

RECURSIVE Total(_)
Total(seq) == IF seq = <<>> THEN 0 ELSE Head(seq) + Total(Tail(seq))

\* v is the arithmetic mean of the numbers in the non-empty window.
IsMean(v, window) == v * Len(window) = Total(window)

\* p is the arithmetic mean of the positions in the non-empty window.
IsMeanPosition(p, window) ==
    /\ IsMean(p.x, [i \in 1..Len(window) |-> window[i].x])
    /\ IsMean(p.y, [i \in 1..Len(window) |-> window[i].y])

\* The raw palm centre of a detection, in fine units.
RawPalm(landmarks) ==
    [x |-> PalmSum(landmarks).x * (FINE \div 5), y |-> PalmSum(landmarks).y * (FINE \div 5)]

\* d (fine units) is the thumb-tip to index-tip distance of a detection.
IsRawPinch(d, landmarks) ==
    /\ d >= 0
    /\ d % FINE = 0
    /\ (d \div FINE) * (d \div FINE) = DistSq(landmarks[4], landmarks[8])

\* C17: every window holds at most 3 samples.  A frame that assigns a role
\* pushes that frame's raw sample: the window becomes the last 3 of the old
\* window followed by the sample, and the smoothed value is the mean of the
\* new window.  A frame that does not assign the role leaves the window as
\* it was or clears it.
C17_Windows ==
    [][/\ Len(tracker'.leftPalmBuffer) <= 3
       /\ Len(tracker'.rightPalmBuffer) <= 3
       /\ Len(tracker'.pinchBuffer) <= 3
       /\ IF Len(PrimaryUpdates') = 1
          THEN /\ tracker'.leftPalmBuffer =
                      LastN(Append(tracker.leftPalmBuffer,
                                   RawPalm(PrimaryUpdates'[1].landmarks)), 3)
               /\ IsMeanPosition(tracker'.leftPalm, tracker'.leftPalmBuffer)
               /\ PrimaryUpdates'[1].palmCenter = tracker'.leftPalm
          ELSE tracker'.leftPalmBuffer \in {tracker.leftPalmBuffer, <<>>}
       /\ IF Len(SecondaryUpdates') = 1
          THEN /\ tracker'.rightPalmBuffer =
                      LastN(Append(tracker.rightPalmBuffer,
                                   RawPalm(SecondaryUpdates'[1].landmarks)), 3)
               /\ IsMeanPosition(tracker'.rightPalm, tracker'.rightPalmBuffer)
               /\ SecondaryUpdates'[1].palmCenter = tracker'.rightPalm
               /\ Len(tracker'.pinchBuffer) >= 1
               /\ IsRawPinch(tracker'.pinchBuffer[Len(tracker'.pinchBuffer)],
                             SecondaryUpdates'[1].landmarks)
               /\ tracker'.pinchBuffer =
                      LastN(Append(tracker.pinchBuffer,
                                   tracker'.pinchBuffer[Len(tracker'.pinchBuffer)]), 3)
               /\ IsMean(tracker'.pinchDistance, tracker'.pinchBuffer)
          ELSE /\ tracker'.rightPalmBuffer \in {tracker.rightPalmBuffer, <<>>}
               /\ tracker'.pinchBuffer \in {tracker.pinchBuffer, <<>>}]_vars

\* All three windows full, each holding samples that differ, after a frame
\* that pushed into all of them.
C17_Witness ==
    /\ Len(PrimaryUpdates) = 1
    /\ Len(SecondaryUpdates) = 1
    /\ Len(tracker.leftPalmBuffer) = 3
    /\ Len(tracker.rightPalmBuffer) = 3
    /\ Len(tracker.pinchBuffer) = 3
    /\ tracker.leftPalmBuffer[1] # tracker.leftPalmBuffer[3]
    /\ tracker.rightPalmBuffer[1] # tracker.rightPalmBuffer[2]
    /\ tracker.pinchBuffer[1] # tracker.pinchBuffer[3]

\* C18 (as claimed): on a frame in which a role goes from absent to present
\* the role's smoothed values are the raw samples of that frame (its
\* windows were empty before the push).
C18_FreshWindowOnAcquire ==
    [][/\ (~tracker.leftHandDetected /\ tracker'.leftHandDetected) =>
              /\ Len(PrimaryUpdates') = 1
              /\ tracker'.leftPalm = RawPalm(PrimaryUpdates'[1].landmarks)
       /\ (~tracker.rightHandDetected /\ tracker'.rightHandDetected) =>
              /\ Len(SecondaryUpdates') = 1
              /\ tracker'.rightPalm = RawPalm(SecondaryUpdates'[1].landmarks)
              /\ IsRawPinch(tracker'.pinchDistance, SecondaryUpdates'[1].landmarks)]_vars

\* C18, the part the code keeps: a frame that assigns the secondary role
\* right after a one-detection or split-artifact frame starts from empty
\* secondary windows.
C18_ClearedByPositionOnly ==
    [][(Processed /\ NumDetections >= 1 /\ ~AssignsSecondary(results)
            /\ AssignsSecondary(results')) =>
              /\ tracker'.rightPalm = RawPalm(SecondaryUpdates'[1].landmarks)
              /\ IsRawPinch(tracker'.pinchDistance, SecondaryUpdates'[1].landmarks)]_vars

\* C19 (as claimed): whenever the pinch state is Engaged, the frame just
\* processed assigned the secondary role, the curl gate held in it, and its
\* smoothed pinch distance is not above 0.08.
C19_EngagedOnlyWhileSecondary ==
    tracker.isZooming =>
        /\ AssignsSecondary(results)
        /\ Len(SecondaryUpdates) = 1
        /\ GateHeld(SecondaryUpdates[1])
        /\ tracker.pinchDistance <= 80 * FINE

\* C20: at most one send is in flight (or settled but not yet resumed) at
\* any time, and only while _isProcessing is set; the onResults listener
\* runs only for the one send in flight; and a processFrame call made while
\* the previous call has not finished sends nothing and changes no state of
\* the tracker.
C20_OneInFlight ==
    [][/\ detector'.inFlight + detector'.resuming <= 1
       /\ detector'.inFlight + detector'.resuming = 1 => tracker'._isProcessing
       /\ results' # results => detector.inFlight = 1
       /\ (detector'.tick # detector.tick /\ detector.inFlight + detector.resuming > 0) =>
              /\ detector'.outcome = "skipped"
              /\ detector'.inFlight = detector.inFlight
              /\ tracker' = tracker
              /\ calls' = calls
              /\ results' = results]_vars

\* A render tick was skipped while a send that has already delivered its
\* results was still in flight.
C20_Witness ==
    /\ detector.outcome = "skipped"
    /\ detector.inFlight = 1
    /\ detector.delivered
    /\ tracker._isProcessing
    /\ Processed

\* The consecutive-miss counter of a role of the debouncing tracker.
LostFramesOf(role) ==
    IF role = "left" THEN dtracker.leftLostFrames ELSE dtracker.rightLostFrames

\* C21: a frame that assigns a role leaves that role's miss counter at zero
\* and the role live, from every earlier counter value and flag.
C21_AcquireAtOnce ==
    [][\A role \in Roles :
          Assigns(results', role) => (LostFramesOf(role)' = 0 /\ Live(role)')]_vars

\* The left role is assigned for the first time, on the frame after five
\* frames without it (the right role has missed all six): its counter went
\* from 5 to 0 and its flag from false to true.
C21_Witness ==
    /\ Assigns(results, "left")
    /\ Len(dtracker.leftPalmBuffer) = 1
    /\ dtracker.rightLostFrames = 6
    /\ LostFramesOf("left") = 0
    /\ Live("left")
    /\ ~Live("right")

\* C22 (as claimed): a frame of the debouncing tracker emits at most one
\* update per role (it assigns at most one detection to each role).
C22_OneDetectionPerRole ==
    \A role \in Roles : Len(UpdatesOf(role)) <= 1

\* C23: on a frame that assigns the secondary role with the curl gate held,
\* the smoothed distance grown by at most 0.02 and lying in 0.05..0.08
\* (both inclusive), the pinch state and startPinchDistance stay as they
\* were, Idle or Engaged.
C23_HysteresisBand ==
    [][(/\ AssignsSecondary(results')
        /\ Len(SecondaryUpdates') = 1
        /\ GateHeld(SecondaryUpdates'[1])
        /\ tracker'.pinchDistance - tracker.prevPinchDistance <= 20 * FINE
        /\ tracker'.pinchDistance >= 50 * FINE
        /\ tracker'.pinchDistance <= 80 * FINE) =>
            /\ tracker'.isZooming = tracker.isZooming
            /\ tracker'.startPinchDistance = tracker.startPinchDistance]_vars

\* Engaged inside the band with the gate held, on a frame after the
\* engagement frame: the state stayed Engaged.
C23_Witness ==
    /\ AssignsSecondary(results)
    /\ Len(SecondaryUpdates) = 1
    /\ GateHeld(SecondaryUpdates[1])
    /\ tracker.isZooming
    /\ tracker.pinchDistance >= 50 * FINE
    /\ tracker.pinchDistance <= 80 * FINE
    /\ tracker.startPinchDistance < 50 * FINE

\* A frame holds a detection whose keypoint count is not 21.
Malformed(res) ==
    \E i \in 1..Len(res.multiHandLandmarks) : KeypointCount(res.multiHandLandmarks[i]) # 21

\* The engine state of the role-resolving tracker: live flags, smoothing
\* windows and values, pinch state, previous positions.
EngineState(this) ==
    <<this.leftHandDetected, this.rightHandDetected, this.handsCount,
      this.leftPalmBuffer, this.rightPalmBuffer, this.pinchBuffer,
      this.leftPalm, this.rightPalm, this.pinchDistance,
      this.isZooming, this.startPinchDistance, this.prevPinchDistance,
      this.prevRightPalm, this._rightHandActive>>

\* C24 (as claimed): a frame with a malformed detection yields an error,
\* leaves the engine state unchanged and emits no event.
C24_MalformedRejected ==
    [][Malformed(results') =>
          /\ \E i \in 1..Len(calls') : calls'[i].type = "TypeError"
          /\ EngineState(tracker') = EngineState(tracker)
          /\ PrimaryUpdates' = <<>>
          /\ SecondaryUpdates' = <<>>
          /\ HandsLostCalls(calls') = 0]_vars

\* C24, what the code does with a detection of 22 keypoints: it is
\* processed like a well-formed one.
C24_ExtraKeypointAccepted ==
    (Processed /\ NumDetections = 1 /\ KeypointCount(results.multiHandLandmarks[1]) > 21) =>
        /\ Len(PrimaryUpdates) = 1
        /\ tracker.leftHandDetected

\* The palm centres recorded by the step just taken.
PalmCenters == SelectSeq(calls, LAMBDA c : c.type = "palmCenter")

\* Two hands that agree on the keypoints 0, 5, 9, 13 and 17.
SamePalmKeypoints(g, h) == \A i \in {0, 5, 9, 13, 17} : g[i] = h[i]

\* C25: a palm centre is the unweighted mean of the keypoints 0, 5, 9, 13
\* and 17, the same for every hand that agrees on these five, and computing
\* it leaves the tracker as it was; a frame with two detections pushes one
\* sample, that of the detection made primary, into the primary window and
\* at most one into each secondary window (the separation test pushes
\* nothing).
C25_PalmCentre ==
    [][/\ \A i \in 1..Len(PalmCenters') :
             /\ 5 * PalmCenters'[i].value.x = FINE * PalmSum(results'.multiHandLandmarks[1]).x
             /\ 5 * PalmCenters'[i].value.y = FINE * PalmSum(results'.multiHandLandmarks[1]).y
             /\ \A h \in PalmHands :
                    SamePalmKeypoints(h, results'.multiHandLandmarks[1]) =>
                        CalculatePalmCenter(h) = PalmCenters'[i].value
             /\ tracker' = tracker
       /\ (PalmCenters' = <<>> /\ Len(results'.multiHandLandmarks) = 2) =>
             /\ Len(PrimaryUpdates') = 1
             /\ tracker'.leftPalmBuffer =
                    LastN(Append(tracker.leftPalmBuffer,
                                 RawPalm(PrimaryUpdates'[1].landmarks)), 3)
             /\ IF AssignsSecondary(results')
                THEN tracker'.rightPalmBuffer =
                        LastN(Append(tracker.rightPalmBuffer,
                                     RawPalm(SecondaryUpdates'[1].landmarks)), 3)
                ELSE tracker'.rightPalmBuffer = <<>> /\ tracker'.pinchBuffer = <<>>]_vars

\* The palm centre of a hand whose index MCP (5) was moved but whose index
\* PIP (6) and other keypoints were not, computed while the tracker holds
\* samples of a two-hand frame.
C25_Witness ==
    /\ Len(PalmCenters) = 1
    /\ results.multiHandLandmarks[1][5].x = PositionHand[5].x + 10
    /\ results.multiHandLandmarks[1][6] = PositionHand[6]
    /\ 5 * PalmCenters[1].value.x = FINE * (5 * 300 + 10)
    /\ Len(tracker.rightPalmBuffer) = 2

\* Every keypoint of every detection of the frame is in [0, 1] x [0, 1].
InUnitSquare(res) ==
    \A d \in 1..Len(res.multiHandLandmarks) : \A i \in 0..20 :
        /\ res.multiHandLandmarks[d][i].x \in 0..1000
        /\ res.multiHandLandmarks[d][i].y \in 0..1000

\* The palm positions emitted by the last frame.
EmittedPalms ==
    {PrimaryUpdates[i].palmCenter : i \in 1..Len(PrimaryUpdates)}
        \cup {SecondaryUpdates[i].palmCenter : i \in 1..Len(SecondaryUpdates)}

\* C26: with every keypoint of every frame in [0, 1] x [0, 1], every palm
\* position emitted, primary or secondary, is in [0, 1] x [0, 1], and so is
\* every sample kept in the position windows.
C26_PalmInUnitSquare ==
    InUnitSquare(results) =>
        /\ \A p \in EmittedPalms : p.x \in 0..(1000 * FINE) /\ p.y \in 0..(1000 * FINE)
        /\ \A i \in 1..Len(tracker.leftPalmBuffer) :
              /\ tracker.leftPalmBuffer[i].x \in 0..(1000 * FINE)
              /\ tracker.leftPalmBuffer[i].y \in 0..(1000 * FINE)
        /\ \A i \in 1..Len(tracker.rightPalmBuffer) :
              /\ tracker.rightPalmBuffer[i].x \in 0..(1000 * FINE)
              /\ tracker.rightPalmBuffer[i].y \in 0..(1000 * FINE)

\* Both windows full of samples on the border: the primary position emitted
\* is the corner (0, 0), the secondary one the corner (1, 1).
C26_Witness ==
    /\ InUnitSquare(results)
    /\ Len(tracker.leftPalmBuffer) = 3
    /\ Len(tracker.rightPalmBuffer) = 3
    /\ Len(PrimaryUpdates) = 1
    /\ Len(SecondaryUpdates) = 1
    /\ PrimaryUpdates[1].palmCenter = [x |-> 0, y |-> 0]
    /\ SecondaryUpdates[1].palmCenter = [x |-> 1000 * FINE, y |-> 1000 * FINE]

\* C27 (as claimed): a call of init on a tracker that has processed frames
\* leaves every engine field at its constructor value: live flags false,
\* windows empty, pinch state Idle with startPinchDistance and
\* prevPinchDistance 0, prevRightPalm null.
C27_InitResets ==
    [][InitAgain => EngineState(tracker') = EngineState(NewHandTracker)]_vars

\* C28: a frame that does not assign the secondary role (no detection, one
\* detection, a split artifact) leaves isZooming, startPinchDistance and
\* prevPinchDistance as they were; a frame that assigns it stores its
\* smoothed distance in prevPinchDistance and, while Engaged, measures its
\* velocity against the prevPinchDistance it found, which is therefore the
\* smoothed distance of the last frame before the absence.
C28_PinchSurvivesAbsence ==
    [][IF AssignsSecondary(results')
       THEN /\ Len(SecondaryUpdates') = 1
            /\ tracker'.prevPinchDistance = tracker'.pinchDistance
            /\ tracker.isZooming =>
                  (tracker'.isZooming <=>
                      /\ tracker'.pinchDistance <= 80 * FINE
                      /\ tracker'.pinchDistance - tracker.prevPinchDistance <= 20 * FINE
                      /\ GateHeld(SecondaryUpdates'[1]))
       ELSE /\ tracker'.isZooming = tracker.isZooming
            /\ tracker'.startPinchDistance = tracker.startPinchDistance
            /\ tracker'.prevPinchDistance = tracker.prevPinchDistance]_vars

\* A split-artifact frame processed while Engaged: the windows of the
\* secondary hand are empty, the pinch state is still Engaged with its
\* zoom-start reference and the previous distance.
C28_Witness ==
    /\ Len(results.multiHandLandmarks) = 2
    /\ ~AssignsSecondary(results)
    /\ tracker.pinchBuffer = <<>>
    /\ tracker.isZooming
    /\ tracker.startPinchDistance > 0
    /\ tracker.prevPinchDistance > tracker.startPinchDistance

\* C29: after every processed frame the secondary role is live only if the
\* primary role is; handsCount is 0 exactly when neither role is live, 2
\* exactly when the secondary role is live and 1 otherwise, so 1 after a
\* split-artifact frame with its two detections.
C29_CountMatchesRoles ==
    Processed =>
        /\ tracker.rightHandDetected => tracker.leftHandDetected
        /\ tracker.handsCount \in {0, 1, 2}
        /\ tracker.handsCount = 0 <=>
              (~tracker.leftHandDetected /\ ~tracker.rightHandDetected)
        /\ tracker.handsCount = 2 <=> tracker.rightHandDetected
        /\ (NumDetections = 2 /\ SeparationBelow(results)) => tracker.handsCount = 1

\* A split-artifact frame was processed: two detections, one hand counted,
\* the primary role live alone.
C29_Witness ==
    /\ Processed
    /\ NumDetections = 2
    /\ SeparationBelow(results)
    /\ tracker.handsCount = 1
    /\ tracker.leftHandDetected
    /\ ~tracker.rightHandDetected

\* C30: every state with _isProcessing set is followed by one with it
\* clear, whether the send resolved or was rejected, and a rejection leaves
\* no trace but the cleared flag (no callback, no other field); a
\* processFrame call made with the flag clear, the detector loaded and the
\* video ready sends a frame.
C30_FlagClearedAndSendsAgain ==
    /\ tracker._isProcessing ~> ~tracker._isProcessing
    /\ [][ProcessFrameResumes =>
             /\ ~tracker'._isProcessing
             /\ EngineState(tracker') = EngineState(tracker)
             /\ calls' = calls]_vars
    /\ [][(/\ ProcessFrame
            /\ ~tracker._isProcessing
            /\ detector.loaded
            /\ detector.readyState >= 2) =>
               /\ detector'.outcome = "sent"
               /\ detector'.inFlight = detector.inFlight + 1
               /\ tracker'._isProcessing]_vars

\* A frame in flight, sent after the send before it was rejected.
C30_Witness ==
    /\ detector.settled = "rejected"
    /\ detector.resuming = 0
    /\ detector.inFlight = 1
    /\ detector.outcome = "sent"
    /\ tracker._isProcessing

\* C31: after every processed frame of the debouncing tracker a live role
\* has a miss counter of at most 5; a counter above 5 goes with a cleared
\* flag.
C31_LiveWithinThreshold ==
    dtracker._firstResultReceived =>
        /\ dtracker.leftHandDetected => dtracker.leftLostFrames <= 5
        /\ dtracker.rightHandDetected => dtracker.rightLostFrames <= 5
        /\ dtracker.leftLostFrames > 5 => ~dtracker.leftHandDetected
        /\ dtracker.rightLostFrames > 5 => ~dtracker.rightHandDetected

\* The left role still live on its fifth missed frame, the right role
\* cleared on its sixth.
C31_Witness ==
    /\ dtracker._firstResultReceived
    /\ dtracker.leftHandDetected
    /\ dtracker.leftLostFrames = 5
    /\ ~dtracker.rightHandDetected
    /\ dtracker.rightLostFrames = 6

\* The callbacks invoked so far in the frame in progress, by name.
CallTypes(cs) == [i \in 1..Len(cs) |-> cs[i].type]

\* s is an initial part of t.
IsPrefix(s, t) == Len(s) <= Len(t) /\ s = SubSeq(t, 1, Len(s))

\* C32: in a frame that assigns both roles every callback runs with both
\* live flags already set, and the callbacks run in the order primary
\* update, secondary update, status refresh; in a frame with no detection
\* every callback runs with both flags already cleared, in the order status
\* refresh, HandsLost, and no primary or secondary update is emitted; a
\* frame is finished when the last callback of its list has run.
C32_OrderWithinFrame ==
    [][(calls' # calls /\ calls' # <<>>) =>
          /\ AssignsSecondary(results) =>
                /\ tracker.leftHandDetected /\ tracker.rightHandDetected
                /\ IsPrefix(CallTypes(calls'),
                            <<"onLeftHand", "onRightHand", "updateStatusUI">>)
          /\ Len(results.multiHandLandmarks) = 0 =>
                /\ ~tracker.leftHandDetected /\ ~tracker.rightHandDetected
                /\ IsPrefix(CallTypes(calls'), <<"updateStatusUI", "onHandsLost">>)
                /\ calls'[1].left = FALSE /\ calls'[1].right = FALSE
          /\ (ListenerAt("idle"))' =>
                CallTypes(calls') =
                    IF AssignsSecondary(results)
                    THEN <<"onLeftHand", "onRightHand", "updateStatusUI">>
                    ELSE IF Len(results.multiHandLandmarks) = 0
                    THEN <<"updateStatusUI", "onHandsLost">>
                    ELSE <<"onLeftHand", "updateStatusUI">>]_vars

\* A frame with no detection arrives after a frame with both roles: the
\* flags have been cleared and the status refreshed, HandsLost is still to
\* be emitted.
C32_Witness ==
    /\ ListenerAt("zeroStatus")
    /\ Len(results.multiHandLandmarks) = 0
    /\ CallTypes(calls) = <<"updateStatusUI">>
    /\ ~tracker.leftHandDetected
    /\ ~tracker.rightHandDetected
    /\ tracker.rightPalmBuffer # <<>>

\* The setVisible calls among the calls the last handler made on the Earth.
SetVisibleCalls(sc) == SelectSeq(sc.earthCalls, LAMBDA c : c.type = "setVisible")

\* C33: once the model has loaded, the Earth is visible exactly when
\* handsAreActive; a HandsLost event calls setVisible(false) exactly when a
\* primary update came since the HandsLost before it (or since the start),
\* and otherwise changes nothing; a primary update leaves the Earth visible,
\* and with followHand off it leaves the target position as it was.
C33_VisibleIffActive ==
    [][scene.earth.loaded =>
          /\ scene.earth.visible <=> scene.handsAreActive
          /\ scene'.earth.visible <=> scene'.handsAreActive
          /\ HandsLostEvent =>
                /\ ~scene'.earth.visible
                /\ SetVisibleCalls(scene') =
                      IF scene.primarySeen
                      THEN <<[type |-> "setVisible", visible |-> FALSE]>>
                      ELSE <<>>
                /\ ~scene.primarySeen => scene'.earth = scene.earth
          /\ LeftHandEvent =>
                /\ scene'.earth.visible
                /\ ~scene.settings.followHand =>
                      scene'.earth.targetPosition = scene.earth.targetPosition]_vars

\* A primary update handled with followHand off, before any had moved the
\* Earth: it is visible and its target position is still the origin.
C33_Witness ==
    /\ scene.earth.loaded
    /\ scene.primarySeen
    /\ ~scene.settings.followHand
    /\ scene.earth.visible
    /\ scene.handsAreActive
    /\ scene.earth.targetPosition = [x |-> 0, y |-> 0, z |-> 0]
    /\ SetVisibleCalls(scene) = <<[type |-> "setVisible", visible |-> TRUE]>>

\* C34: targetScale is always in [0.15, 5.0]; a setScaleFactor call with
\* isZooming false leaves targetScale as it was and sets zoomStartScale to
\* null; a call with isZooming true that starts a run captures currentScale
\* in zoomStartScale, a later call of the run leaves zoomStartScale as it
\* was, and so does Earth.update.
C34_ScaleClampedAndCapturedOnce ==
    [][/\ scene'.earth.targetScale \in MIN_SCALE..MAX_SCALE
       /\ \A factor \in Factors :
             /\ ScaleFactorCall(factor, FALSE) =>
                   /\ scene'.earth.targetScale = scene.earth.targetScale
                   /\ scene'.earth.zoomStartScale = NULL
             /\ ScaleFactorCall(factor, TRUE) =>
                   scene'.earth.zoomStartScale =
                       IF scene.zoomRun THEN scene.earth.zoomStartScale
                       ELSE Number(scene.earth.currentScale)
       /\ EarthUpdate => scene'.earth.zoomStartScale = scene.earth.zoomStartScale]_vars

\* In a run of zooming calls: the scale has moved on since the capture, the
\* reference has not, and the target is clamped at 5.0.
C34_Witness ==
    /\ scene.zoomRun
    /\ scene.earth.zoomStartScale = Number(MIN_SCALE)
    /\ scene.earth.currentScale > 2 * MIN_SCALE
    /\ scene.earth.targetScale = MAX_SCALE

\* zoomStartScale holds a number.
ZoomStartSet == ~Unset(scene.earth.zoomStartScale)

\* C35: with the tracker's callbacks handled by the scene controller and
\* the zoom setting on, after every processed frame the Earth's
\* zoomStartScale is set exactly when the tracker's pinch state is Engaged.
C35_ZoomStartIffEngaged ==
    (Processed /\ scene.settings.enableZoom) => (ZoomStartSet <=> tracker.isZooming)

\* Engaged across an absence of the secondary hand, the reference still
\* set and the scale already moved on from it.
C35_Witness ==
    /\ Processed
    /\ scene.settings.enableZoom
    /\ tracker.isZooming
    /\ ~AssignsSecondary(results)
    /\ ZoomStartSet
    /\ scene.earth.currentScale # scene.earth.zoomStartScale.value

\* The callbacks and status refreshes among the invocations of a delivery.
Events(cs) == SelectSeq(cs, LAMBDA c : c.type \notin {"console.log", "console.warn"})

\* C36: two trackers fed the same frames, one with debug mode on at any
\* time and one without, are in the same engine state after every frame and
\* have emitted the same events with the same payloads.
C36_DebugDoesNotInterfere ==
    /\ EngineState(twin.this) = EngineState(tracker)
    /\ Events(twin.calls) = calls

\* The tracker in debug mode has just logged an engagement, on a frame
\* after the first one of the secondary hand.
C36_Witness ==
    /\ twin.this.debugEnabled
    /\ tracker.isZooming
    /\ Len(tracker.pinchBuffer) >= 2
    /\ \E i \in 1..Len(twin.calls) :
          twin.calls[i].type = "console.log" /\ twin.calls[i].text = "ZOOM STARTED"
    /\ Len(twin.calls) > Len(calls)

====
